---- MODULE Spec2Model ----
(***************************************************************************)
(* Model of the back-test core of the trading system: the Broker ledger    *)
(* (src/backtest/broker.py) and the bar-by-bar loop of the BacktestEngine  *)
(* (src/backtest/engine.py).                                               *)
(*                                                                         *)
(* Money is decimal.Decimal in the source.  A Decimal is modelled as a     *)
(* record [neg, mag, exp]: a sign, a coefficient held as a little-endian   *)
(* sequence of base-10^4 limbs, and the number of fractional limbs, so     *)
(* that products are exact and quantize() really rounds.                   *)
(***************************************************************************)
EXTENDS Integers, Sequences, FiniteSets, TLC

\* ------------------------------------------------------------------------
\* Natural numbers of arbitrary size: little-endian sequences of limbs.
\* ------------------------------------------------------------------------
Base == 10000

RECURSIVE NStrip(_)
NStrip(m) ==
    IF m = <<>> THEN <<>>
    ELSE IF m[Len(m)] = 0 THEN NStrip(SubSeq(m, 1, Len(m) - 1))
    ELSE m

RECURSIVE NAddC(_, _, _)
NAddC(a, b, c) ==
    IF a = <<>> /\ b = <<>> THEN (IF c = 0 THEN <<>> ELSE <<c>>)
    ELSE LET x == IF a = <<>> THEN 0 ELSE Head(a)
             y == IF b = <<>> THEN 0 ELSE Head(b)
             s == x + y + c
         IN  <<s % Base>> \o NAddC(IF a = <<>> THEN <<>> ELSE Tail(a),
                                   IF b = <<>> THEN <<>> ELSE Tail(b),
                                   s \div Base)

NAdd(a, b) == NStrip(NAddC(a, b, 0))

\* a - b for a >= b
RECURSIVE NSubB(_, _, _)
NSubB(a, b, c) ==
    IF a = <<>> THEN <<>>
    ELSE LET y == IF b = <<>> THEN 0 ELSE Head(b)
             d == Head(a) - y - c
         IN  <<(d + Base) % Base>> \o NSubB(Tail(a),
                                            IF b = <<>> THEN <<>> ELSE Tail(b),
                                            IF d < 0 THEN 1 ELSE 0)

NSub(a, b) == NStrip(NSubB(a, b, 0))

\* -1, 0, 1 as a < b, a = b, a > b (both stripped)
RECURSIVE NCmpEq(_, _, _)
NCmpEq(a, b, i) ==
    IF i = 0 THEN 0
    ELSE IF a[i] < b[i] THEN -1
    ELSE IF a[i] > b[i] THEN 1
    ELSE NCmpEq(a, b, i - 1)

NCmp(a, b) ==
    IF Len(a) < Len(b) THEN -1
    ELSE IF Len(a) > Len(b) THEN 1
    ELSE NCmpEq(a, b, Len(a))

\* a * n for a limb-sized n (0 <= n <= Base)
RECURSIVE NMulSC(_, _, _)
NMulSC(a, n, c) ==
    IF a = <<>> THEN (IF c = 0 THEN <<>> ELSE <<c % Base, c \div Base>>)
    ELSE LET p == Head(a) * n + c
         IN  <<p % Base>> \o NMulSC(Tail(a), n, p \div Base)

NMulS(a, n) == NStrip(NMulSC(a, n, 0))

RECURSIVE NMul(_, _)
NMul(a, b) ==
    IF b = <<>> \/ a = <<>> THEN <<>>
    ELSE LET rest == NMul(a, Tail(b))
         IN  NAdd(NMulS(a, Head(b)), IF rest = <<>> THEN <<>> ELSE <<0>> \o rest)

\* the largest q in lo..hi with q * b <= r  (binary search)
RECURSIVE NDigit(_, _, _, _)
NDigit(r, b, lo, hi) ==
    IF lo >= hi THEN lo
    ELSE LET mid == (lo + hi + 1) \div 2
         IN  IF NCmp(NMulS(b, mid), r) <= 0
             THEN NDigit(r, b, mid, hi)
             ELSE NDigit(r, b, lo, mid - 1)

\* the limbs of r from position n upward, as an integer (at most two limbs)
NTop(r, n) ==
    (IF Len(r) >= n THEN r[n] ELSE 0) + (IF Len(r) > n THEN r[n + 1] * Base ELSE 0)

Min(x, y) == IF x <= y THEN x ELSE y

\* one quotient limb: r < b * Base; the leading limbs bracket the search
NQuotLimb(r, b) ==
    LET n == Len(b)
        t == NTop(r, n)
    IN  NDigit(r, b, t \div (b[n] + 1), Min(Base - 1, t \div b[n]))

\* long division of x by y, limbs of x taken from the top, for y with a
\* leading limb of at least Base / 2 (every quotient limb's bracket is then a
\* few wide): the quotient, the remainder and the divisor
NDivScaled(x, y) ==
    LET n == Len(x)
        st[k \in 0..n] ==
            IF k = 0 THEN [q |-> <<>>, r |-> <<>>]
            ELSE LET p == st[k - 1]
                     r1 == NStrip(<<x[n - k + 1]>> \o p.r)
                     d == NQuotLimb(r1, y)
                 IN  IF Len(p.q) < k
                     THEN [q |-> <<d>> \o p.q, r |-> NSub(r1, NMulS(y, d))]
                     ELSE p
    IN  [q |-> NStrip(st[n].q), r |-> st[n].r, y |-> y]

\* a / b for b # 0, both scaled by the same factor: q = floor(a / b), and
\* r / y = (a mod b) / b
NDiv(a, b) ==
    NDivScaled(NMulS(a, Base \div (b[Len(b)] + 1)), NMulS(b, Base \div (b[Len(b)] + 1)))

\* the natural number n (n < 2^31) as limbs
RECURSIVE NOfInt(_)
NOfInt(n) == IF n = 0 THEN <<>> ELSE <<n % Base>> \o NOfInt(n \div Base)

\* ------------------------------------------------------------------------
\* decimal.Decimal: value = (-1)^neg * mag * Base^(-exp).  The record is kept
\* canonical (no zero limb at either end, zero is positive with exp 0) so
\* that numerically equal Decimals are equal records.
\* ------------------------------------------------------------------------
RECURSIVE DNorm(_, _, _)
DNorm(neg, mag, exp) ==
    IF mag = <<>> \/ NStrip(mag) = <<>> THEN [neg |-> FALSE, mag |-> <<>>, exp |-> 0]
    ELSE IF exp > 0 /\ Head(mag) = 0 THEN DNorm(neg, Tail(mag), exp - 1)
    ELSE [neg |-> neg, mag |-> NStrip(mag), exp |-> exp]

\* the literal ip + f1/10^4 + f2/10^8 (ip >= 0)
DecLit(ip, f1, f2) == DNorm(FALSE, <<f2, f1>> \o NOfInt(ip), 2)

Zero == [neg |-> FALSE, mag |-> <<>>, exp |-> 0]

One == [neg |-> FALSE, mag |-> <<1>>, exp |-> 0]

Hundred == [neg |-> FALSE, mag |-> <<100>>, exp |-> 0]

\* the coefficient of d at exp fractional limbs (exp >= d.exp)
DCoef(d, exp) ==
    IF d.mag = <<>> THEN <<>> ELSE [i \in 1..(exp - d.exp) |-> 0] \o d.mag

DMaxExp(a, b) == IF a.exp >= b.exp THEN a.exp ELSE b.exp

DNeg(a) == DNorm(~a.neg, a.mag, a.exp)

DAdd(a, b) ==
    LET e == DMaxExp(a, b)
        x == DCoef(a, e)
        y == DCoef(b, e)
    IN  IF a.neg = b.neg THEN DNorm(a.neg, NAdd(x, y), e)
        ELSE IF NCmp(x, y) >= 0 THEN DNorm(a.neg, NSub(x, y), e)
        ELSE DNorm(b.neg, NSub(y, x), e)

DSub(a, b) == DAdd(a, DNeg(b))

DMul(a, b) == DNorm(a.neg # b.neg, NMul(a.mag, b.mag), a.exp + b.exp)

\* a < b: the difference is negative (a zero Decimal is never negative)
DLt(a, b) == DSub(a, b).neg
DLe(a, b) == ~DLt(b, a)
DGt(a, b) == DLt(b, a)
DGe(a, b) == ~DLt(a, b)

\* value.quantize(Decimal('0.00000001'), rounding=ROUND_HALF_UP): eight
\* fractional digits are two limbs; the dropped part rounds the magnitude up
\* exactly when its leading limb is at least half the base.
QuantLimbs == 2

round_decimal(value) ==
    IF value.exp <= QuantLimbs THEN value
    ELSE LET k == value.exp - QuantLimbs
             kept == IF Len(value.mag) > k
                     THEN SubSeq(value.mag, k + 1, Len(value.mag)) ELSE <<>>
             up == Len(value.mag) >= k /\ value.mag[k] >= Base \div 2
         IN  DNorm(value.neg, IF up THEN NAdd(kept, <<1>>) ELSE kept, QuantLimbs)

\* The arithmetic context of decimal: every result is rounded to 28
\* significant digits, ROUND_HALF_EVEN.
Prec == 28

LimbDigits(n) == IF n >= 1000 THEN 4 ELSE IF n >= 100 THEN 3 ELSE IF n >= 10 THEN 2 ELSE 1

\* the number of decimal digits of a stripped natural number
NDigits(m) == IF m = <<>> THEN 0 ELSE 4 * (Len(m) - 1) + LimbDigits(m[Len(m)])

Pow10(r) == IF r = 0 THEN 1 ELSE IF r = 1 THEN 10 ELSE IF r = 2 THEN 100
            ELSE IF r = 3 THEN 1000 ELSE 10000

\* d without its lowest L limbs, rounded half-even on what is dropped; sticky
\* tells that the exact value lies above d
NRoundLimbs(d, L, sticky) ==
    LET kept == IF Len(d) > L THEN SubSeq(d, L + 1, Len(d)) ELSE <<>>
        top == IF Len(d) >= L THEN d[L] ELSE 0
        lowzero == \A j \in 1..(Min(L, Len(d) + 1) - 1) : d[j] = 0
        odd == kept # <<>> /\ kept[1] % 2 = 1
        up == \/ top > Base \div 2
              \/ top = Base \div 2 /\ (~lowzero \/ sticky \/ odd)
    IN  IF up THEN NAdd(kept, <<1>>) ELSE kept

\* c / 10^drop rounded half-even (drop >= 1): c is first brought to a whole
\* number of limbs to drop
NRoundHalfEven(c, drop, sticky) ==
    NRoundLimbs(IF drop % 4 = 0 THEN c ELSE NMulS(c, Pow10(4 - (drop % 4))),
                (drop + 3) \div 4, sticky)

\* the Decimal (-1)^neg * mag * Base^(-exp) for an exponent of either sign
DMake(neg, mag, exp) ==
    IF exp >= 0 THEN DNorm(neg, mag, exp)
    ELSE DNorm(neg, [i \in 1..(0 - exp) |-> 0] \o mag, 0)

\* a coefficient qr.q whose exact value lies above it when qr.r is not zero,
\* rounded to Prec digits, at Base^(-exp)
DRoundPrec(neg, qr, exp) ==
    IF NDigits(qr.q) <= Prec THEN DMake(neg, qr.q, exp)
    ELSE DMake(neg,
               [i \in 1..((NDigits(qr.q) - Prec) \div 4) |-> 0]
                   \o NMulS(NRoundHalfEven(qr.q, NDigits(qr.q) - Prec, qr.r # <<>>),
                            Pow10((NDigits(qr.q) - Prec) % 4)),
               exp)

\* a value as the context leaves it
DCtx(x) == DRoundPrec(x.neg, [q |-> x.mag, r |-> <<>>], x.exp)

\* a * b as Decimal.__mul__ returns it
DMulCtx(a, b) == DCtx(DMul(a, b))

\* a / b as Decimal.__truediv__ returns it (b # 0): the quotient is carried
\* to at least nine limbs, the remainder is the sticky bit
DDiv(a, b) ==
    IF a.mag = <<>> THEN Zero
    ELSE DRoundPrec(a.neg # b.neg,
                    NDiv([i \in 1..(Len(b.mag) - Len(a.mag) + 9) |-> 0] \o a.mag, b.mag),
                    (IF Len(b.mag) - Len(a.mag) + 9 > 0
                     THEN Len(b.mag) - Len(a.mag) + 9 ELSE 0) + a.exp - b.exp)

\* ------------------------------------------------------------------------
\* Configuration (Broker.__init__).  fee, slippage, leverage and
\* initial_balance are the values of backtest/run.py; the risk limits come
\* from settings.yaml through check_config_parameters.
\* ------------------------------------------------------------------------
None == [none |-> TRUE]

\* a local variable whose value is computed once and then read several
\* times: With([x \in {e} |-> f(x)]) is f(e)
With(f) == f[CHOOSE x \in DOMAIN f : TRUE]

commission_rate == DNorm(FALSE, <<5>>, 1)
slippage_rate == DNorm(FALSE, <<5>>, 1)
leverage == DecLit(5, 0, 0)
initial_balance == DecLit(10000, 0, 0)
max_margin_usage == DecLit(0, 8000, 0)
max_daily_loss == DecLit(0, 500, 0)
max_daily_trades == 3
cooldown_period == 3600
max_trend_holding_bars == 3
max_mean_rev_holding_bars == 2
risk_per_trade == DecLit(0, 500, 0)
max_loss_percent == DecLit(0, 200, 0)
mean_reversion_sl == DecLit(0, 100, 0)
mean_reversion_tp == DecLit(0, 200, 0)
activate_price_rate == DecLit(0, 100, 0)
trailing_percent == DecLit(0, 5000, 0)

\* the values of consecutive_losses the ledger is built with
Thresholds == {2, 3}
EngineThresholds == {2}

BarMs == 60 * 60 * 1000
DayMs == 24 * BarMs

\* ------------------------------------------------------------------------
\* Bounds and inputs of the model
\* ------------------------------------------------------------------------
MaxOpens == 3
MaxTicks == 2

StartTime == 47 * BarMs
EndTime == StartTime + MaxTicks * BarMs

\* config['symbol'], in the order the engine walks it
symbol_list == <<"BTCUSDT", "ETHUSDT">>
Symbols == {symbol_list[k] : k \in 1..Len(symbol_list)}

\* the entry orders the caller of the ledger may place: both sides, and one
\* order too large for the balance
Tenth == DNorm(FALSE, <<1000>>, 1)
OpenRequests ==
    {[symbol |-> "BTCUSDT", side |-> "BUY", amount |-> Tenth],
     [symbol |-> "BTCUSDT", side |-> "SELL", amount |-> Tenth],
     [symbol |-> "BTCUSDT", side |-> "BUY", amount |-> One],
     [symbol |-> "ETHUSDT", side |-> "SELL", amount |-> Tenth]}

\* the quoted price of a symbol at each tick (the open of its bar)
BtcQuotes == <<DecLit(50000, 0, 0), DecLit(51000, 0, 0), DecLit(50000, 0, 5),
               DecLit(49000, 0, 0)>>
EthQuotes == <<DecLit(3000, 0, 0), DecLit(3010, 1234, 5678), DecLit(3050, 0, 0),
               DecLit(3000, 0, 0)>>

\* a later stretch of the data in which BTCUSDT opens a bar far below the low
\* of the bar before: the opens from the bar at CrashTime on, the highs and
\* lows from the bar before it
CrashTime == StartTime + 48 * BarMs
CrashBars ==
    [BTCUSDT |->
        [open |-> <<DecLit(50000, 0, 0), DecLit(20000, 0, 0), DecLit(20000, 0, 0),
                    DecLit(20000, 0, 0)>>,
         high |-> <<DecLit(50100, 0, 0), DecLit(50100, 0, 0), DecLit(20100, 0, 0),
                    DecLit(20100, 0, 0)>>,
         low |-> <<DecLit(49900, 0, 0), DecLit(49900, 0, 0), DecLit(19900, 0, 0),
                   DecLit(19900, 0, 0)>>],
     ETHUSDT |->
        [open |-> <<DecLit(3000, 0, 0), DecLit(3000, 0, 0), DecLit(3000, 0, 0),
                    DecLit(3000, 0, 0)>>,
         high |-> <<DecLit(3010, 0, 0), DecLit(3010, 0, 0), DecLit(3010, 0, 0),
                    DecLit(3010, 0, 0)>>,
         low |-> <<DecLit(2990, 0, 0), DecLit(2990, 0, 0), DecLit(2990, 0, 0),
                   DecLit(2990, 0, 0)>>]]

Quote(symbol, time) ==
    LET k == (time - StartTime) \div BarMs
        c == (time - CrashTime) \div BarMs
    IN  IF time >= CrashTime
        THEN CrashBars[symbol].open[(c % Len(CrashBars[symbol].open)) + 1]
        ELSE IF symbol = "BTCUSDT" THEN BtcQuotes[(k % Len(BtcQuotes)) + 1]
        ELSE EthQuotes[(k % Len(EthQuotes)) + 1]
Reasons == {"MANUAL"}

\* the highs and lows of the bars, from the bar before the first one processed
BtcHighs == <<DecLit(50100, 0, 0), DecLit(50600, 0, 0), DecLit(51200, 0, 0),
              DecLit(50100, 0, 0)>>
BtcLows == <<DecLit(49900, 0, 0), DecLit(49800, 0, 0), DecLit(50900, 0, 0),
             DecLit(49400, 0, 0)>>
EthHighs == <<DecLit(3010, 0, 0), DecLit(3015, 0, 0), DecLit(3080, 0, 0),
              DecLit(3060, 0, 0)>>
EthLows == <<DecLit(2990, 0, 0), DecLit(2960, 0, 0), DecLit(3005, 0, 0),
             DecLit(3040, 0, 0)>>

BarOf(time) == (time - StartTime) \div BarMs

High(symbol, time) ==
    LET crash == time >= CrashTime - BarMs
        h == IF crash THEN CrashBars[symbol].high
             ELSE IF symbol = "BTCUSDT" THEN BtcHighs ELSE EthHighs
        b == IF crash THEN (time - CrashTime) \div BarMs ELSE BarOf(time)
    IN  h[((b + 1) % Len(h)) + 1]

Low(symbol, time) ==
    LET crash == time >= CrashTime - BarMs
        l == IF crash THEN CrashBars[symbol].low
             ELSE IF symbol = "BTCUSDT" THEN BtcLows ELSE EthLows
        b == IF crash THEN (time - CrashTime) \div BarMs ELSE BarOf(time)
    IN  l[((b + 1) % Len(l)) + 1]

\* what the signals and the ATR of the data may tell the engine at a bar
Strategies == {"no_trade", "trend_long", "trend_short", "mean_rev_long", "mean_rev_short"}
SizeMultipliers == {DecLit(0, 7000, 0), DecLit(1, 2000, 0)}

\* the bars of data the run walks: range(reserved_klines, len(df_1h) - 1)
MaxBars == 3

VARIABLES
    broker,     \* the Broker object: account_info, positions, trades, cooldown and reset fields
    clock,      \* the simulated time (ms) the caller passes as timestamp / current_time
    run,        \* BacktestEngine.run: bar index i, place k in symbol_list, status
    last_call,  \* the last ledger call or engine step with what it did and returned
    activated_at \* history: close timestamp of the loss that started the cooldown in force

vars == <<broker, clock, run, last_call, activated_at>>

\* ------------------------------------------------------------------------
\* Broker
\* ------------------------------------------------------------------------
position_template ==
    [symbol |-> "None", side |-> "None", strategy |-> "None",
     open_time |-> None, close_time |-> None,
     open_price |-> Zero, open_amt |-> Zero, open_size |-> Zero,
     close_price |-> Zero, close_amt |-> Zero, close_size |-> Zero,
     margin |-> Zero, close_reason |-> "None",
     stop_loss |-> None, take_profit |-> None, trailing_stop |-> None,
     price_rate |-> None, pnl |-> Zero, pnl_percentage |-> Zero,
     market_condition |-> None]

BrokerInit(consecutive_losses) ==
    [max_consecutive_loss |-> consecutive_losses,
     account_info |-> [account_equity |-> initial_balance,
                       total_trades |-> 0,
                       total_pnl |-> Zero,
                       daily_trades |-> 0,
                       daily_pnl |-> Zero],
     positions |-> <<>>,
     trades |-> <<>>,
     equity_curve |-> <<>>,
     consecutive_losses |-> 0,
     cooldown_start_time |-> 0,
     is_cooldown_activate |-> FALSE,
     last_reset_time |-> 0]

calculate_commission(amount) == round_decimal(DMul(amount, commission_rate))

calculate_slippage(price, is_buy) ==
    IF is_buy THEN round_decimal(DMul(price, DAdd(One, slippage_rate)))
    ELSE round_decimal(DMul(price, DSub(One, slippage_rate)))

\* open_position, lines 240-249: the fill of an entry order
OpenFillMarginOff(side, amount, price) ==
    LET slippage_price == calculate_slippage(price, side = "BUY")
        trade_size == round_decimal(DMulCtx(amount, slippage_price))
    IN  [slippage_price |-> slippage_price,
         trade_size |-> trade_size,
         commission |-> round_decimal(calculate_commission(trade_size)),
         margin |-> trade_size]

OpenFill(side, amount, price) ==
    LET slippage_price == calculate_slippage(price, side = "BUY")
        trade_size == round_decimal(DMulCtx(amount, slippage_price))
    IN  [slippage_price |-> slippage_price,
         trade_size |-> trade_size,
         commission |-> round_decimal(calculate_commission(trade_size)),
         margin |-> round_decimal(DDiv(trade_size, leverage))]

\* open_position, lines 252-276: the two rejections, in the order of the code
OpenOutcomeOverwrite(self, symbol, fill) ==
    IF DGt(DAdd(fill.margin, fill.commission), self.account_info.account_equity)
    THEN "insufficient_funds"
    ELSE "ok"

OpenOutcome(self, symbol, fill) ==
    IF DGt(DAdd(fill.margin, fill.commission), self.account_info.account_equity)
    THEN "insufficient_funds"
    ELSE IF symbol \notin DOMAIN self.positions THEN "ok"
    ELSE "already_open"

\* open_position, lines 279-281
AccountAfterOpenMarginDeducted(account_info, fill) ==
    [account_info EXCEPT !.account_equity = DSub(DSub(@, fill.commission), fill.margin),
                         !.total_trades = @ + 1,
                         !.daily_trades = @ + 1]

\* an open counted in the day's count only
AccountAfterOpenDailyOnly(account_info, fill) ==
    [account_info EXCEPT !.account_equity = DSub(@, fill.commission),
                         !.daily_trades = @ + 1]

AccountAfterOpen(account_info, fill) ==
    [account_info EXCEPT !.account_equity = DSub(@, fill.commission),
                         !.total_trades = @ + 1,
                         !.daily_trades = @ + 1]

\* open_position, lines 253-254 and 275-276: a rejected open returns False
\* before anything is written
RejectedOpenCounted(self) ==
    [self EXCEPT !.account_info.total_trades = @ + 1,
                 !.account_info.daily_trades = @ + 1]

RejectedOpen(self) == self

\* the dict self.positions with positions[symbol] = position
PutPosition(positions, symbol, position) ==
    [s \in DOMAIN positions \cup {symbol} |->
        IF s = symbol THEN position ELSE positions[s]]

\* the dict self.positions after del positions[symbol]
DelPosition(positions, symbol) ==
    [s \in DOMAIN positions \ {symbol} |-> positions[s]]

open_position(self, symbol, side, amount, price, timestamp, strategy, stop_loss, take_profit, trailing_stop, price_rate) ==
    With([fill \in {OpenFill(side, amount, price)} |->
        LET outcome == OpenOutcome(self, symbol, fill)
            position == [position_template EXCEPT
                            !.symbol = symbol,
                            !.side = side,
                            !.strategy = strategy,
                            !.open_time = timestamp,
                            !.open_price = fill.slippage_price,
                            !.open_amt = amount,
                            !.open_size = fill.trade_size,
                            !.margin = fill.margin,
                            !.stop_loss = stop_loss,
                            !.take_profit = take_profit,
                            !.trailing_stop = trailing_stop,
                            !.price_rate = price_rate]
        IN  IF outcome = "ok"
            THEN [self |-> [self EXCEPT
                                !.positions = PutPosition(@, symbol, position),
                                !.account_info = AccountAfterOpen(@, fill)],
                  ret |-> TRUE, log |-> "ok", raised |-> FALSE]
            ELSE [self |-> RejectedOpen(self), ret |-> FALSE, log |-> outcome,
                  raised |-> FALSE]])

\* close_position, lines 305-308: the side is flipped in the stored position
FlipSide(side) == IF side = "BUY" THEN "SELL" ELSE "BUY"

\* close_position, lines 313-317; side is the flipped side
CloseSlippage(side, price) ==
    IF side = "BUY" THEN calculate_slippage(price, FALSE)
    ELSE calculate_slippage(price, TRUE)

\* close_position, lines 323-327; side is the flipped side
ClosePnlSwapped(side, entry_price, slippage_price, amount) ==
    IF side = "BUY"
    THEN round_decimal(DMulCtx(DSub(slippage_price, entry_price), amount))
    ELSE round_decimal(DMulCtx(DSub(entry_price, slippage_price), amount))

ClosePnl(side, entry_price, slippage_price, amount) ==
    IF side = "BUY"
    THEN round_decimal(DMulCtx(DSub(entry_price, slippage_price), amount))
    ELSE round_decimal(DMulCtx(DSub(slippage_price, entry_price), amount))

\* close_position, lines 340-350
AccountAfterClose(account_info, pnl, commission) ==
    [account_info EXCEPT
        !.account_equity = DSub(round_decimal(DAdd(@, pnl)), commission),
        !.total_pnl = round_decimal(DAdd(@, pnl)),
        !.daily_pnl = round_decimal(DAdd(@, pnl))]

\* close_position, lines 352-360: the consecutive-loss counter and the cooldown
LossStreakNoReset(self, pnl, timestamp) ==
    IF DLt(pnl, Zero)
    THEN IF self.consecutive_losses + 1 >= self.max_consecutive_loss
         THEN [self EXCEPT !.consecutive_losses = @ + 1,
                           !.cooldown_start_time = timestamp,
                           !.is_cooldown_activate = TRUE]
         ELSE [self EXCEPT !.consecutive_losses = @ + 1]
    ELSE self

LossStreak(self, pnl, timestamp) ==
    IF DLt(pnl, Zero)
    THEN IF self.consecutive_losses + 1 >= self.max_consecutive_loss
         THEN [self EXCEPT !.consecutive_losses = @ + 1,
                           !.cooldown_start_time = timestamp,
                           !.is_cooldown_activate = TRUE]
         ELSE [self EXCEPT !.consecutive_losses = @ + 1]
    ELSE [self EXCEPT !.consecutive_losses = 0]

\* a log that puts the newest record first
AppendTradeFirst(trades, closed) == <<closed>> \o trades

\* line 363: self.trades.append(self.positions[symbol].copy())
AppendTrade(trades, closed) == Append(trades, closed)

close_position(self, symbol, price, timestamp, reason) ==
    IF symbol \notin DOMAIN self.positions
    THEN [self |-> self, ret |-> FALSE, log |-> "no_position", raised |-> FALSE]
    ELSE
    LET position == [self.positions[symbol] EXCEPT !.side = FlipSide(@)]
        flipped == [self EXCEPT !.positions = PutPosition(@, symbol, position)]
        side == position.side
        amount == position.open_amt
        entry_price == position.open_price
    IN
    With([slippage_price \in {CloseSlippage(side, price)} |->
    With([trade_size \in {round_decimal(DMulCtx(amount, slippage_price))} |->
    With([pnl \in {ClosePnl(side, entry_price, slippage_price, amount)} |->
        LET commission == round_decimal(calculate_commission(trade_size))
            closed == [position EXCEPT
                          !.close_time = timestamp,
                          !.close_price = slippage_price,
                          !.close_amt = amount,
                          !.close_size = trade_size,
                          !.close_reason = reason,
                          !.pnl = pnl,
                          !.pnl_percentage =
                              round_decimal(DMulCtx(DDiv(pnl, position.open_size), Hundred))]
            account == [flipped EXCEPT !.account_info = AccountAfterClose(@, pnl, commission)]
            streak == LossStreak(account, pnl, timestamp)
        IN  IF position.open_size = Zero
            THEN \* pnl / position['open_size'] raises; only the side flip has happened
                 [self |-> flipped, ret |-> FALSE, log |-> "division_by_zero", raised |-> TRUE]
            ELSE [self |-> [streak EXCEPT !.trades = AppendTrade(@, closed),
                                          !.positions = DelPosition(@, symbol)],
                  ret |-> TRUE, log |-> "ok", raised |-> FALSE]])])])

\* ------------------------------------------------------------------------
\* Risk checks
\* ------------------------------------------------------------------------
UtcDate(ms) == ms \div DayMs

\* _reset_daily_data
reset_daily_data(self, current_time) ==
    LET midnight_timestamp == UtcDate(current_time) * DayMs
    IN  IF self.last_reset_time = 0
        THEN [self EXCEPT !.last_reset_time = midnight_timestamp]
        ELSE IF UtcDate(current_time) > UtcDate(self.last_reset_time)
        THEN [self EXCEPT !.account_info.daily_pnl = Zero,
                          !.account_info.daily_trades = 0,
                          !.last_reset_time = midnight_timestamp]
        ELSE self

RECURSIVE SumMargin(_, _)
SumMargin(positions, syms) ==
    IF syms = {} THEN Zero
    ELSE LET s == CHOOSE x \in syms : TRUE
         IN  DAdd(positions[s].margin, SumMargin(positions, syms \ {s}))

\* a margin check without the test for an equity of 0
check_margin_usage_unguarded(self) ==
    DLe(SumMargin(self.positions, DOMAIN self.positions),
        DMul(max_margin_usage, self.account_info.account_equity))

\* total_margin / account_equity <= max_margin_usage; the quotient is
\* compared through the product, its sign following the sign of the equity
check_margin_usage(self) ==
    LET equity == self.account_info.account_equity
        total_margin == SumMargin(self.positions, DOMAIN self.positions)
    IN  IF equity = Zero THEN FALSE
        ELSE IF equity.neg THEN DGe(total_margin, DMul(max_margin_usage, equity))
        ELSE DLe(total_margin, DMul(max_margin_usage, equity))

check_daily_pnl(self) ==
    ~ DLt(self.account_info.daily_pnl,
          DNeg(DMul(self.account_info.account_equity, max_daily_loss)))

\* check_daily_trades runs the lazy daily reset first
check_daily_trades(self, current_time) ==
    LET after == reset_daily_data(self, current_time)
    IN  [self |-> after, ret |-> after.account_info.daily_trades < max_daily_trades]

check_cooldown_keep(self, current_time) ==
    IF self.is_cooldown_activate
    THEN IF current_time - self.cooldown_start_time < cooldown_period * 1000
         THEN [self |-> self, ret |-> FALSE]
         ELSE [self |-> [self EXCEPT !.cooldown_start_time = 0,
                                     !.is_cooldown_activate = FALSE],
               ret |-> TRUE]
    ELSE [self |-> self, ret |-> TRUE]

\* a cooldown that starts to count with the bar after the activating close
check_cooldown_next_bar(self, current_time) ==
    IF self.is_cooldown_activate
    THEN IF current_time - self.cooldown_start_time < cooldown_period * 1000
            /\ current_time > self.cooldown_start_time
         THEN [self |-> self, ret |-> FALSE]
         ELSE [self |-> [self EXCEPT !.consecutive_losses = 0,
                                     !.cooldown_start_time = 0,
                                     !.is_cooldown_activate = FALSE],
               ret |-> TRUE]
    ELSE [self |-> self, ret |-> TRUE]

check_cooldown(self, current_time) ==
    IF self.is_cooldown_activate
    THEN IF current_time - self.cooldown_start_time < cooldown_period * 1000
         THEN [self |-> self, ret |-> FALSE]
         ELSE [self |-> [self EXCEPT !.consecutive_losses = 0,
                                     !.cooldown_start_time = 0,
                                     !.is_cooldown_activate = FALSE],
               ret |-> TRUE]
    ELSE [self |-> self, ret |-> TRUE]

\* a gate that does not ask for the margin usage
can_open_position_no_margin(self, current_time) ==
    With([trades \in {check_daily_trades(self, current_time)} |->
    With([cooldown \in {check_cooldown(trades.self, current_time)} |->
        [self |-> cooldown.self,
         ret |-> check_daily_pnl(self) /\ trades.ret /\ cooldown.ret,
         checks |-> [margin |-> TRUE, daily_pnl |-> check_daily_pnl(self),
                     daily_trades |-> trades.ret, cooldown |-> cooldown.ret]]])])

\* all([...]) evaluates the four checks in order, none is skipped
can_open_position(self, current_time) ==
    With([trades \in {check_daily_trades(self, current_time)} |->
    With([cooldown \in {check_cooldown(trades.self, current_time)} |->
        LET margin_ok == check_margin_usage(self)
            pnl_ok == check_daily_pnl(self)
        IN  [self |-> cooldown.self,
             ret |-> margin_ok /\ pnl_ok /\ trades.ret /\ cooldown.ret,
             checks |-> [margin |-> margin_ok, daily_pnl |-> pnl_ok,
                         daily_trades |-> trades.ret, cooldown |-> cooldown.ret]]])])

\* a candle timestamp that keeps the milliseconds of the started bar
convert_to_candle_timestamp_exact(timestamp) == timestamp

\* _convert_to_candle_timestamp
convert_to_candle_timestamp(timestamp) == timestamp - (timestamp % (60 * 60 * 1000))

\* check_holding_period: TRUE while the position is younger than its class allows
check_holding_period(self, symbol, current_time, is_trend) ==
    IF symbol \notin DOMAIN self.positions THEN FALSE
    ELSE LET open_candle_time == convert_to_candle_timestamp(self.positions[symbol].open_time)
             current_candle_time == convert_to_candle_timestamp(current_time)
             candle_count == (current_candle_time - open_candle_time) \div (60 * 60 * 1000)
         IN  IF is_trend THEN candle_count < max_trend_holding_bars
             ELSE candle_count < max_mean_rev_holding_bars

can_close_position(self, symbol, current_time, is_trend) ==
    ~ check_holding_period(self, symbol, current_time, is_trend)

\* the exit levels handed to open_position: plain products, not quantized
set_stop_loss(is_trend, current_price, side) ==
    LET rate == IF is_trend THEN max_loss_percent ELSE mean_reversion_sl
    IN  IF side = "BUY" THEN DMulCtx(current_price, DSub(One, rate))
        ELSE DMulCtx(current_price, DAdd(One, rate))

set_take_profit(current_price, side) ==
    IF side = "BUY" THEN DMulCtx(current_price, DAdd(One, mean_reversion_tp))
    ELSE DMulCtx(current_price, DSub(One, mean_reversion_tp))

set_trailing_activate_price(current_price, side) ==
    IF side = "BUY" THEN DMulCtx(current_price, DAdd(One, activate_price_rate))
    ELSE DMulCtx(current_price, DSub(One, activate_price_rate))

set_trailing_price_rate == trailing_percent

\* a stop that needs the bar to go beyond it
check_stop_loss_strict(self, symbol, high_price, low_price) ==
    IF symbol \notin DOMAIN self.positions THEN FALSE
    ELSE LET position == self.positions[symbol]
         IN  IF position.stop_loss = None THEN FALSE
             ELSE \/ position.side = "BUY" /\ DLt(low_price, position.stop_loss)
                  \/ position.side = "SELL" /\ DGt(high_price, position.stop_loss)

check_stop_loss(self, symbol, high_price, low_price) ==
    IF symbol \notin DOMAIN self.positions THEN FALSE
    ELSE LET position == self.positions[symbol]
         IN  IF position.stop_loss = None THEN FALSE
             ELSE \/ position.side = "BUY" /\ DLe(low_price, position.stop_loss)
                  \/ position.side = "SELL" /\ DGe(high_price, position.stop_loss)

check_take_profit(self, symbol, high_price, low_price) ==
    IF symbol \notin DOMAIN self.positions THEN FALSE
    ELSE LET position == self.positions[symbol]
         IN  IF position.take_profit = None THEN FALSE
             ELSE \/ position.side = "BUY" /\ DGe(high_price, position.take_profit)
                  \/ position.side = "SELL" /\ DLe(low_price, position.take_profit)

\* a check that arms on any bar beyond the entry price
trailing_activated_entry(position, high_price, low_price) ==
    IF position.side = "BUY" THEN DGt(high_price, position.open_price)
    ELSE DLt(low_price, position.open_price)

\* lines 709 and 718: the bar has passed the activation price
trailing_activated(position, high_price, low_price) ==
    IF position.side = "BUY" THEN DGt(high_price, position.trailing_stop)
    ELSE DLt(low_price, position.trailing_stop)

\* lines 712 and 721: the callback price, from the extreme of the bar
stop_price(position, high_price, low_price) ==
    IF position.side = "BUY"
    THEN DMulCtx(high_price, DSub(One, DDiv(position.price_rate, Hundred)))
    ELSE DMulCtx(low_price, DAdd(One, DDiv(position.price_rate, Hundred)))

\* check_trailing_stop: the callback price is taken from the extreme of the
\* very bar that is tested; when the bar retraces to it the stop is moved there
check_trailing_stop(self, symbol, high_price, low_price) ==
    IF symbol \notin DOMAIN self.positions THEN [self |-> self, ret |-> FALSE]
    ELSE
    LET position == self.positions[symbol]
    IN  IF position.trailing_stop = None \/ position.price_rate = None
        THEN [self |-> self, ret |-> FALSE]
        ELSE IF ~trailing_activated(position, high_price, low_price)
        THEN [self |-> self, ret |-> FALSE]
        ELSE
        With([price \in {stop_price(position, high_price, low_price)} |->
            IF IF position.side = "BUY" THEN DLe(low_price, price)
               ELSE DGe(high_price, price)
            THEN [self |-> [self EXCEPT !.positions[symbol].stop_loss = price],
                  ret |-> TRUE]
            ELSE [self |-> self, ret |-> FALSE]])

\* calculate_position_size.  size_multiplier is what the ATR of the data
\* selects (0.7, 1.0 or 1.2); None stands for the computation raising, which
\* the method answers with Decimal('0').
calculate_position_size(self, current_price, is_trend, size_multiplier) ==
    LET base_size == DDiv(DMulCtx(self.account_info.account_equity, risk_per_trade),
                          IF is_trend THEN max_loss_percent ELSE mean_reversion_sl)
        position_size == DDiv(base_size, current_price)
    IN  IF size_multiplier = None \/ current_price = Zero THEN Zero
        ELSE DMulCtx(position_size, size_multiplier)

\* record_market_condition: positions[symbol] is subscripted without a test;
\* a missing symbol is a KeyError
record_market_condition(self, symbol, timestamp) ==
    IF symbol \notin DOMAIN self.positions
    THEN [self |-> self, raised |-> TRUE]
    ELSE [self |-> [self EXCEPT !.positions[symbol].market_condition =
                                    [timestamp |-> timestamp]],
          raised |-> FALSE]

\* ------------------------------------------------------------------------
\* The ledger driven call by call: any caller, timestamps never going back
\* ------------------------------------------------------------------------
Init ==
    /\ \E consecutive_losses \in Thresholds : broker = BrokerInit(consecutive_losses)
    /\ clock = StartTime
    /\ run = [i |-> 0, k |-> 0, status |-> "idle"]
    /\ last_call = [op |-> "init"]
    /\ activated_at = 0

\* history of the activating loss: set when the cooldown flag rises, cleared
\* when it falls
ActivatedAfter(after, timestamp) ==
    IF ~after.is_cooldown_activate THEN 0
    ELSE IF ~broker.is_cooldown_activate THEN timestamp
    ELSE activated_at

OpenPosition ==
    /\ broker.account_info.total_trades < MaxOpens
    /\ \E req \in OpenRequests :
       \E price \in {Quote(req.symbol, clock)} :
       \E r \in {open_position(broker, req.symbol, req.side, req.amount, price, clock,
                               "None", None, None, None, None)} :
            /\ broker' = r.self
            /\ last_call' = [op |-> "open_position", symbol |-> req.symbol,
                             side |-> req.side, amount |-> req.amount,
                             price |-> price, timestamp |-> clock,
                             ret |-> r.ret, log |-> r.log]
    /\ UNCHANGED <<clock, run, activated_at>>

ClosePosition ==
    /\ \E symbol \in Symbols, reason \in Reasons :
       \E price \in {Quote(symbol, clock)} :
       \E r \in {close_position(broker, symbol, price, clock, reason)} :
            /\ broker' = r.self
            /\ last_call' = [op |-> "close_position", symbol |-> symbol,
                             price |-> price, timestamp |-> clock,
                             ret |-> r.ret, log |-> r.log]
            /\ activated_at' = ActivatedAfter(r.self, clock)
    /\ UNCHANGED <<clock, run>>

CanOpenPosition ==
    /\ \E r \in {can_open_position(broker, clock)} :
            /\ broker' = r.self
            /\ last_call' = [op |-> "can_open_position", timestamp |-> clock,
                             ret |-> r.ret, checks |-> r.checks]
            /\ activated_at' = ActivatedAfter(r.self, clock)
    /\ UNCHANGED <<clock, run>>

Tick ==
    /\ clock < EndTime
    /\ clock' = clock + BarMs
    /\ last_call' = [op |-> "tick"]
    /\ UNCHANGED <<broker, run, activated_at>>

Next == OpenPosition \/ ClosePosition \/ CanOpenPosition \/ Tick

Spec == Init /\ [][Next]_vars

\* ------------------------------------------------------------------------
\* BacktestEngine.run: the bar loop, one step per symbol of a bar
\* ------------------------------------------------------------------------
IsTrend(strategy) == strategy \in {"trend_long", "trend_short"}

EndsWithLong(strategy) == strategy \in {"trend_long", "mean_rev_long"}

\* the exits with the signal and the holding period tested first
ExitPhaseSignalFirst(self, symbol, current_time, current_price, high_price, low_price, should_close) ==
    LET position == self.positions[symbol]
    IN
    With([trail \in {IF position.trailing_stop # None
                     THEN check_trailing_stop(self, symbol, high_price, low_price)
                     ELSE [self |-> self, ret |-> FALSE]} |->
    With([exit \in {IF should_close
                       \/ can_close_position(self, symbol, current_time,
                                             IsTrend(position.strategy))
                    THEN [self |-> self, price |-> current_price, reason |-> "MANUAL"]
                    ELSE IF position.stop_loss # None
                            /\ check_stop_loss(self, symbol, high_price, low_price)
                    THEN [self |-> self, price |-> position.stop_loss,
                          reason |-> "STOP_LOSS"]
                    ELSE IF position.take_profit # None
                            /\ check_take_profit(self, symbol, high_price, low_price)
                    THEN [self |-> self, price |-> position.take_profit,
                          reason |-> "TAKE_PROFIT"]
                    ELSE IF trail.ret
                    THEN [self |-> trail.self,
                          price |-> trail.self.positions[symbol].stop_loss,
                          reason |-> "TRAILING_STOP"]
                    ELSE [self |-> self, price |-> None, reason |-> "None"]} |->
        IF exit.reason = "None"
        THEN [self |-> self, closed |-> FALSE, reason |-> "None", price |-> None,
              ret |-> FALSE, raised |-> FALSE]
        ELSE With([r \in {close_position(exit.self, symbol, exit.price, current_time,
                                         exit.reason)} |->
                 [self |-> r.self, closed |-> TRUE, reason |-> exit.reason,
                  price |-> exit.price, ret |-> r.ret, raised |-> r.raised]])])])

\* lines 133-181: the exits of a held position, tested in the order of the
\* code against the high and low of the bar before; position is the dict
\* fetched at line 114, the very object stored in broker.positions
ExitPhase(self, symbol, current_time, current_price, high_price, low_price, should_close) ==
    LET position == self.positions[symbol]
    IN
    With([trail \in {IF position.trailing_stop # None
                     THEN check_trailing_stop(self, symbol, high_price, low_price)
                     ELSE [self |-> self, ret |-> FALSE]} |->
    With([exit \in {IF position.stop_loss # None
                       /\ check_stop_loss(self, symbol, high_price, low_price)
                    THEN [self |-> self, price |-> position.stop_loss,
                          reason |-> "STOP_LOSS"]
                    ELSE IF position.take_profit # None
                            /\ check_take_profit(self, symbol, high_price, low_price)
                    THEN [self |-> self, price |-> position.take_profit,
                          reason |-> "TAKE_PROFIT"]
                    ELSE IF trail.ret
                    THEN [self |-> trail.self,
                          price |-> trail.self.positions[symbol].stop_loss,
                          reason |-> "TRAILING_STOP"]
                    ELSE IF should_close
                            \/ can_close_position(self, symbol, current_time,
                                                  IsTrend(position.strategy))
                    THEN [self |-> self, price |-> current_price, reason |-> "MANUAL"]
                    ELSE [self |-> self, price |-> None, reason |-> "None"]} |->
        IF exit.reason = "None"
        THEN [self |-> self, closed |-> FALSE, reason |-> "None", price |-> None,
              ret |-> FALSE, raised |-> FALSE]
        ELSE With([r \in {close_position(exit.self, symbol, exit.price, current_time,
                                         exit.reason)} |->
                 [self |-> r.self, closed |-> TRUE, reason |-> exit.reason,
                  price |-> exit.price, ret |-> r.ret, raised |-> r.raised]])])])

\* lines 184-270: the risk gate, the entry and the market-condition snapshot.
\* The value open_position returns is not looked at.  The passive-exit
\* re-check of lines 247-270 tests the position fetched at line 114, which is
\* None on this path, so it does nothing.
OpenPhase(self, symbol, current_time, current_price, selected_strategy, size_multiplier) ==
    LET side == IF EndsWithLong(selected_strategy) THEN "BUY" ELSE "SELL"
        is_trend == IsTrend(selected_strategy)
    IN
    With([can \in {can_open_position(self, current_time)} |->
        IF ~can.ret
        THEN [self |-> can.self, can_open |-> FALSE, open |-> "not_called",
              amount |-> None, raised |-> FALSE]
        ELSE IF symbol \in DOMAIN can.self.positions \/ selected_strategy = "no_trade"
        THEN [self |-> can.self, can_open |-> TRUE, open |-> "not_called",
              amount |-> None, raised |-> FALSE]
        ELSE
        With([amount \in {calculate_position_size(can.self, current_price, is_trend,
                                                  size_multiplier)} |->
        With([opened \in {IF is_trend
                          THEN open_position(can.self, symbol, side, amount, current_price,
                                             current_time, selected_strategy,
                                             set_stop_loss(is_trend, current_price, side),
                                             None,
                                             set_trailing_activate_price(current_price, side),
                                             set_trailing_price_rate)
                          ELSE open_position(can.self, symbol, side, amount, current_price,
                                             current_time, selected_strategy,
                                             set_stop_loss(is_trend, current_price, side),
                                             set_take_profit(current_price, side),
                                             None, None)} |->
        With([snapshot \in {record_market_condition(opened.self, symbol, current_time)} |->
            [self |-> snapshot.self, can_open |-> TRUE, open |-> opened.log,
             amount |-> amount, raised |-> snapshot.raised]])])])])

\* a symbol loop without the continue after a close: the symbol just closed
\* goes on to the entry part of the same bar, with a trend entry
ProcessSymbolNoContinue(self, symbol, current_time, should_close, selected_strategy, size_multiplier) ==
    With([current_price \in {Quote(symbol, current_time)} |->
    With([exit \in {IF symbol \in DOMAIN self.positions
                    THEN ExitPhase(self, symbol, current_time, current_price,
                                   High(symbol, current_time - BarMs),
                                   Low(symbol, current_time - BarMs), should_close)
                    ELSE [self |-> self, closed |-> FALSE, reason |-> "None",
                          price |-> None, ret |-> FALSE, raised |-> FALSE]} |->
        IF exit.raised
        THEN [self |-> exit.self, exit |-> exit.reason, exit_price |-> exit.price,
              can_open |-> "not_called", open |-> "not_called", amount |-> None,
              raised |-> exit.raised]
        ELSE With([entry \in {OpenPhase(exit.self, symbol, current_time, current_price,
                                        IF exit.closed THEN "trend_long"
                                        ELSE selected_strategy,
                                        IF exit.closed THEN DecLit(0, 7000, 0)
                                        ELSE size_multiplier)} |->
                 [self |-> entry.self, exit |-> exit.reason, exit_price |-> exit.price,
                  can_open |-> IF entry.can_open THEN "yes" ELSE "no",
                  open |-> entry.open, amount |-> entry.amount,
                  raised |-> entry.raised]])])])

\* lines 113-270: the body of the symbol loop for one symbol
ProcessSymbol(self, symbol, current_time, should_close, selected_strategy, size_multiplier) ==
    With([current_price \in {Quote(symbol, current_time)} |->
    With([exit \in {IF symbol \in DOMAIN self.positions
                    THEN ExitPhase(self, symbol, current_time, current_price,
                                   High(symbol, current_time - BarMs),
                                   Low(symbol, current_time - BarMs), should_close)
                    ELSE [self |-> self, closed |-> FALSE, reason |-> "None",
                          price |-> None, ret |-> FALSE, raised |-> FALSE]} |->
        IF exit.closed
        THEN [self |-> exit.self, exit |-> exit.reason, exit_price |-> exit.price,
              can_open |-> "not_called", open |-> "not_called", amount |-> None,
              raised |-> exit.raised]
        ELSE With([entry \in {OpenPhase(exit.self, symbol, current_time, current_price,
                                        selected_strategy, size_multiplier)} |->
                 [self |-> entry.self, exit |-> "None", exit_price |-> None,
                  can_open |-> IF entry.can_open THEN "yes" ELSE "no",
                  open |-> entry.open, amount |-> entry.amount,
                  raised |-> entry.raised]])])])

\* float(value): the nearest binary64, ties to even, held as the Decimal it
\* is exactly equal to (magnitudes in the normal range)
RECURSIVE NPow(_, _)
NPow(n, k) ==
    IF k = 0 THEN <<1>>
    ELSE IF k % 2 = 0 THEN LET h == NPow(n, k \div 2) IN NMul(h, h)
    ELSE NMulS(NPow(n, k - 1), n)

Two52 == NPow(2, 52)
Two53 == NPow(2, 53)

\* the exponent e with 2^52 <= (c / d) / 2^e < 2^53, searched from a guess
RECURSIVE FloatExp(_, _, _)
FloatExp(c, d, e) ==
    LET num == IF e < 0 THEN NMul(c, NPow(2, 0 - e)) ELSE c
        den == IF e < 0 THEN d ELSE NMul(d, NPow(2, e))
    IN  IF NCmp(num, NMul(den, Two52)) < 0 THEN FloatExp(c, d, e - 1)
        ELSE IF NCmp(num, NMul(den, Two53)) >= 0 THEN FloatExp(c, d, e + 1)
        ELSE e

\* the quotient qr rounded to the nearest integer, ties to even, times 2^e
FloatRound(neg, qr, e) ==
    LET half == NCmp(NMulS(qr.r, 2), qr.y)
        m == IF half > 0 \/ (half = 0 /\ qr.q[1] % 2 = 1) THEN NAdd(qr.q, <<1>>) ELSE qr.q
        pad == (4 - ((0 - e) % 4)) % 4
    IN  IF e >= 0 THEN DNorm(neg, NMul(m, NPow(2, e)), 0)
        ELSE DNorm(neg, NMulS(NMul(m, NPow(5, 0 - e)), Pow10(pad)), (0 - e + pad) \div 4)

\* value = c / d as the 53-bit significand times 2^e
FloatAt(value, d, e) ==
    FloatRound(value.neg,
               NDiv(IF e < 0 THEN NMul(value.mag, NPow(2, 0 - e)) ELSE value.mag,
                    IF e < 0 THEN d ELSE NMul(d, NPow(2, e))),
               e)

float_of(value) ==
    IF value.mag = <<>> THEN value
    ELSE FloatAt(value, [i \in 1..value.exp |-> 0] \o <<1>>,
                 FloatExp(value.mag, [i \in 1..value.exp |-> 0] \o <<1>>,
                          ((332 * (NDigits(value.mag) + 99 - 4 * value.exp)) \div 100) - 384))

EngineInit ==
    /\ \E consecutive_losses \in EngineThresholds : broker = BrokerInit(consecutive_losses)
    /\ clock = StartTime
    /\ run = [i |-> 0, k |-> 0, status |-> "running"]
    /\ last_call = [op |-> "init"]
    /\ activated_at = 0

\* lines 105-110 and 278-282: the head of the bar loop.  The range is
\* exhausted, or the equity is gone and the loop is left, or the symbols of
\* the bar are walked.
StartBar ==
    /\ run.status = "running" /\ run.k = 0
    /\ run' = IF run.i >= MaxBars \/ DLe(broker.account_info.account_equity, Zero)
              THEN [run EXCEPT !.status = "finished"]
              ELSE [run EXCEPT !.k = 1]
    /\ last_call' = [op |-> "bar"]
    /\ UNCHANGED <<broker, clock, activated_at>>

\* The data decides the exit signal, the strategy selected and the ATR band
\* of the sizing.  Each is drawn where the code computes it: the exit signal
\* for a held symbol (lines 164-175), the selection for a free one (line
\* 195), the sizing for a selected entry (line 213).
\* The engine is driven with every answer the str result of Strategy.select
\* admits; select itself, as core/strategy.py has it, is modelled further
\* down and answers no_trade only.
ExitSignals(self, symbol) ==
    IF symbol \in DOMAIN self.positions THEN BOOLEAN ELSE {FALSE}

EntrySignals(self, symbol) ==
    IF symbol \in DOMAIN self.positions THEN {"no_trade"} ELSE Strategies

SizingOutcomes(selected_strategy) ==
    IF selected_strategy = "no_trade" THEN {None} ELSE SizeMultipliers \cup {None}

\* lines 113-270 for symbol_list[k]; an exception leaves run() (lines 284-286)
StepSymbol ==
    /\ run.status = "running" /\ run.k \in 1..Len(symbol_list)
    /\ \E symbol \in {symbol_list[run.k]} :
       \E should_close \in ExitSignals(broker, symbol),
          selected_strategy \in EntrySignals(broker, symbol) :
       \E size_multiplier \in SizingOutcomes(selected_strategy) :
       \E r \in {ProcessSymbol(broker, symbol, clock, should_close, selected_strategy,
                               size_multiplier)} :
            /\ broker' = r.self
            /\ run' = IF r.raised THEN [run EXCEPT !.status = "raised"]
                      ELSE [run EXCEPT !.k = @ + 1]
            /\ last_call' = [op |-> "step", symbol |-> symbol, timestamp |-> clock,
                             should_close |-> should_close,
                             exit |-> r.exit, exit_price |-> r.exit_price,
                             can_open |-> r.can_open, open |-> r.open,
                             amount |-> r.amount, raised |-> r.raised]
            /\ activated_at' = ActivatedAfter(r.self, clock)
    /\ UNCHANGED clock

\* a bar end that samples the equity only when the bar closed no trade
EndBarUnlessClosed ==
    /\ run.status = "running" /\ run.k = Len(symbol_list) + 1
    /\ broker' = IF broker.trades # <<>> /\ broker.trades[Len(broker.trades)].close_time = clock
                 THEN broker
                 ELSE [broker EXCEPT !.equity_curve =
                          Append(@, [timestamp |-> clock,
                                     equity |-> float_of(broker.account_info.account_equity)])]
    /\ run' = [run EXCEPT !.i = @ + 1, !.k = 0]
    /\ clock' = clock + BarMs
    /\ last_call' = [op |-> "end_bar"]
    /\ UNCHANGED activated_at

\* lines 272-276: one equity sample, then the next bar
EndBar ==
    /\ run.status = "running" /\ run.k = Len(symbol_list) + 1
    /\ broker' = [broker EXCEPT !.equity_curve =
                      Append(@, [timestamp |-> clock,
                                 equity |-> float_of(broker.account_info.account_equity)])]
    /\ run' = [run EXCEPT !.i = @ + 1, !.k = 0]
    /\ clock' = clock + BarMs
    /\ last_call' = [op |-> "end_bar"]
    /\ UNCHANGED activated_at

EngineNext == StartBar \/ StepSymbol \/ EndBar

EngineSpec == EngineInit /\ [][EngineNext]_vars

\* ------------------------------------------------------------------------
\* Properties
\* ------------------------------------------------------------------------
Quantum == DecLit(0, 0, 1)
Two == DecLit(2, 0, 0)

DAbs(d) == [d EXCEPT !.neg = FALSE]

\* x is y rounded to the quantum: at most eight fractional digits and no
\* further than half a quantum from y
Rounds(x, y) ==
    /\ x.exp <= QuantLimbs
    /\ DLe(DMul(Two, DAbs(DSub(x, y))), Quantum)

\* every action writes last_call, so a step is a call of op exactly when it
\* leaves op there
Called(op) == last_call'.op = op

LastTrade(self) == self.trades[Len(self.trades)]

\* the side a closed position was opened with (close_position flips the
\* stored side before the record is logged)
OpenedSide(trade) == FlipSide(trade.side)

RECURSIVE SumPnl(_)
SumPnl(trades) ==
    IF trades = <<>> THEN Zero ELSE DAdd(Head(trades).pnl, SumPnl(Tail(trades)))

\* the fee on a notional, computed apart from the ledger: 0.0005 of it
FeeOn(notional) == round_decimal(DMul(notional, DecLit(0, 5, 0)))

RECURSIVE SumTradeFees(_)
SumTradeFees(trades) ==
    IF trades = <<>> THEN Zero
    ELSE DAdd(DAdd(FeeOn(Head(trades).open_size), FeeOn(Head(trades).close_size)),
              SumTradeFees(Tail(trades)))

RECURSIVE SumOpenFees(_, _)
SumOpenFees(positions, syms) ==
    IF syms = {} THEN Zero
    ELSE LET s == CHOOSE x \in syms : TRUE
         IN  DAdd(FeeOn(positions[s].open_size), SumOpenFees(positions, syms \ {s}))

\* C1: each symbol holds at most one open position -- the position stored
\* under a symbol is that symbol's, and every counted open is either still
\* open or in the trade log, none was overwritten -- and an open_position call
\* for a symbol that holds a position fails and leaves the positions as they
\* were.
C1_OnePositionPerSymbol ==
    /\ [](/\ DOMAIN broker.positions \subseteq Symbols
          /\ \A s \in DOMAIN broker.positions : broker.positions[s].symbol = s
          /\ broker.account_info.total_trades
               = Len(broker.trades) + Cardinality(DOMAIN broker.positions))
    /\ [][Called("open_position") /\ last_call'.symbol \in DOMAIN broker.positions
            => /\ ~last_call'.ret
               /\ broker'.positions = broker.positions]_vars

C1_Witness ==
    /\ last_call.op = "open_position"
    /\ last_call.log = "already_open"
    /\ last_call.symbol \in DOMAIN broker.positions

\* C2: equity = initial_balance + sum of the pnl of the closed trades - the
\* entry and exit fees charged, within 1e-8.
C2_Conservation ==
    LET fees == DAdd(SumTradeFees(broker.trades),
                     SumOpenFees(broker.positions, DOMAIN broker.positions))
        expected == DSub(DAdd(initial_balance, SumPnl(broker.trades)), fees)
    IN  DLe(DAbs(DSub(broker.account_info.account_equity, expected)), Quantum)

C2_Witness ==
    /\ Len(broker.trades) >= 2
    /\ DOMAIN broker.positions # {}
    /\ \E i \in 1..Len(broker.trades) : DLt(broker.trades[i].pnl, Zero)
    /\ \E i \in 1..Len(broker.trades) : DGt(broker.trades[i].pnl, Zero)

\* price * (1 + slippage_rate) and price * (1 - slippage_rate), exact
SlipUp(price) == DMul(price, DecLit(1, 5, 0))
SlipDown(price) == DMul(price, DecLit(0, 9995, 0))

\* the Scenario-A long: BUY 0.1 at the quote 50000, filled at 50025
ScenarioALong(trade) ==
    /\ trade.symbol = "BTCUSDT"
    /\ trade.open_price = DecLit(50025, 0, 0)
    /\ trade.open_amt = Tenth
    /\ OpenedSide(trade) = "BUY"

\* C3: the Scenario-A long closed at the quote 51000 is filled at 50974.5 and
\* realizes pnl 94.95.
C3_ScenarioB ==
    \A i \in 1..Len(broker.trades) :
        LET trade == broker.trades[i]
        IN  ScenarioALong(trade) /\ Quote(trade.symbol, trade.close_time) = DecLit(51000, 0, 0)
            => /\ trade.close_price = DecLit(50974, 5000, 0)
               /\ trade.pnl = DecLit(94, 9500, 0)

\* C4: no fill is better for the trader than the quote: a long is opened and
\* a short is closed at or above it, a short is opened and a long is closed at
\* or below it.
C4_AdverseFills ==
    /\ \A s \in DOMAIN broker.positions :
        LET p == broker.positions[s]
        IN  IF p.side = "BUY" THEN DGe(p.open_price, Quote(s, p.open_time))
            ELSE DLe(p.open_price, Quote(s, p.open_time))
    /\ \A i \in 1..Len(broker.trades) :
        LET trade == broker.trades[i]
        IN  IF OpenedSide(trade) = "BUY"
            THEN /\ DGe(trade.open_price, Quote(trade.symbol, trade.open_time))
                 /\ DLe(trade.close_price, Quote(trade.symbol, trade.close_time))
            ELSE /\ DLe(trade.open_price, Quote(trade.symbol, trade.open_time))
                 /\ DGe(trade.close_price, Quote(trade.symbol, trade.close_time))

\* C5: a successful open_position stores the position at the slipped price
\* (BUY: price * (1 + rate), SELL: price * (1 - rate)) with notional = amount *
\* slipped price and margin = notional / leverage, each rounded to the quantum;
\* equity falls by the entry fee alone, total_trades and daily_trades rise by
\* one; and from equity 10000 a BUY of 0.1 at 50000 gives price 50025, notional
\* 5002.5, margin 1000.5 and equity 9997.49875.
C5_OpenStep ==
    Called("open_position") /\ last_call'.ret =>
        LET call == last_call'
            before == broker.account_info
            after == broker'.account_info
            p == broker'.positions[call.symbol]
            paid == DSub(before.account_equity, after.account_equity)
        IN  /\ p.symbol = call.symbol /\ p.side = call.side
            /\ p.open_amt = call.amount /\ p.open_time = call.timestamp
            /\ Rounds(p.open_price, IF call.side = "BUY" THEN SlipUp(call.price)
                                    ELSE SlipDown(call.price))
            /\ Rounds(p.open_size, DMul(call.amount, p.open_price))
            /\ p.margin.exp <= QuantLimbs
            /\ DLe(DMul(Two, DAbs(DSub(DMul(p.margin, leverage), p.open_size))),
                   DMul(leverage, Quantum))
            /\ Rounds(paid, DMul(p.open_size, DecLit(0, 5, 0)))
            /\ after.total_trades = before.total_trades + 1
            /\ after.daily_trades = before.daily_trades + 1
            /\ after.total_pnl = before.total_pnl /\ after.daily_pnl = before.daily_pnl
            /\ (/\ before.account_equity = DecLit(10000, 0, 0)
                /\ call.side = "BUY" /\ call.amount = Tenth
                /\ call.price = DecLit(50000, 0, 0)
                => /\ p.open_price = DecLit(50025, 0, 0)
                   /\ p.open_size = DecLit(5002, 5000, 0)
                   /\ p.margin = DecLit(1000, 5000, 0)
                   /\ paid = DecLit(2, 5012, 5000)
                   /\ after.account_equity = DecLit(9997, 4987, 5000))

C5_Open == [][C5_OpenStep]_vars

\* Scenario A has happened, and so has an open whose notional had to be rounded
C5_Witness ==
    /\ last_call.op = "open_position" /\ last_call.ret
    /\ last_call.price = DecLit(50000, 0, 5)
    /\ \E i \in 1..Len(broker.trades) :
        /\ ScenarioALong(broker.trades[i])
        /\ broker.trades[i].open_size = DecLit(5002, 5000, 0)

\* C6: a successful close_position fills at the price after slippage, realizes
\* pnl = (exit - entry) * amount for a position opened BUY and (entry - exit) *
\* amount for one opened SELL, adds it to equity, total_pnl and daily_pnl, and
\* takes the exit fee from equity.
C6_CloseStep ==
    Called("close_position") /\ last_call'.ret =>
        LET call == last_call'
            before == broker.account_info
            after == broker'.account_info
            p == broker.positions[call.symbol]
            trade == LastTrade(broker')
            fee == DSub(DAdd(before.account_equity, trade.pnl), after.account_equity)
        IN  /\ Len(broker'.trades) = Len(broker.trades) + 1
            /\ \/ Rounds(trade.close_price, SlipUp(call.price))
               \/ Rounds(trade.close_price, SlipDown(call.price))
            /\ trade.close_price # call.price
            /\ Rounds(trade.close_size, DMul(p.open_amt, trade.close_price))
            /\ Rounds(trade.pnl,
                      IF p.side = "BUY"
                      THEN DMul(DSub(trade.close_price, p.open_price), p.open_amt)
                      ELSE DMul(DSub(p.open_price, trade.close_price), p.open_amt))
            /\ Rounds(fee, DMul(trade.close_size, DecLit(0, 5, 0)))
            /\ after.total_pnl = DAdd(before.total_pnl, trade.pnl)
            /\ after.daily_pnl = DAdd(before.daily_pnl, trade.pnl)
            /\ after.total_trades = before.total_trades
            /\ after.daily_trades = before.daily_trades

C6_Close == [][C6_CloseStep]_vars

\* closes of a long and of a short, one of them at a loss
C6_Witness ==
    /\ last_call.op = "close_position" /\ last_call.ret
    /\ \E i, j \in 1..Len(broker.trades) :
        /\ OpenedSide(broker.trades[i]) = "BUY"
        /\ OpenedSide(broker.trades[j]) = "SELL"
        /\ DLt(broker.trades[i].pnl, Zero)

\* the margin and the entry fee an order asks for, computed apart from the
\* ledger: a fifth and 0.0005 of the slipped notional
MarginAndFee(side, amount, price) ==
    LET slipped == round_decimal(IF side = "BUY" THEN SlipUp(price) ELSE SlipDown(price))
        notional == round_decimal(DMul(amount, slipped))
    IN  DAdd(round_decimal(DMul(notional, DecLit(0, 2000, 0))), FeeOn(notional))

\* C7: open_position is rejected exactly when the symbol holds a position or
\* margin + fee exceeds equity, close_position exactly when the symbol holds
\* none, and a rejected call changes nothing in the ledger.
C7_RejectStep ==
    /\ Called("open_position") =>
        LET call == last_call'
            occupied == call.symbol \in DOMAIN broker.positions
            short == DGt(MarginAndFee(call.side, call.amount, call.price),
                         broker.account_info.account_equity)
        IN  /\ call.ret <=> ~(occupied \/ short)
            /\ call.log = "already_open" => occupied
            /\ call.log = "insufficient_funds" => short
            /\ ~call.ret => broker' = broker
    /\ Called("close_position") =>
        LET call == last_call'
        IN  /\ call.ret <=> call.symbol \in DOMAIN broker.positions
            /\ ~call.ret => broker' = broker

C7_Rejections == [][C7_RejectStep]_vars

C7_Witness ==
    /\ last_call.op = "open_position"
    /\ last_call.log = "insufficient_funds"
    /\ Len(broker.trades) > 0
    /\ DOMAIN broker.positions # {}

\* C8: in a backtest run, a symbol step whose open_position was rejected
\* (AlreadyOpen or InsufficientFunds) raises nothing in its follow-up and
\* leaves the run going on to the next symbol and bar.
C8_RejectedOpenContinues ==
    [][Called("step") /\ last_call'.open \in {"already_open", "insufficient_funds"}
         => ~last_call'.raised /\ run'.status = "running"]_vars

\* the closes that end a loss streak: the last n trades of the log all lost
LastLost(trades, n) ==
    /\ Len(trades) >= n
    /\ \A j \in 1..n : DLt(trades[Len(trades) - j + 1].pnl, Zero)

\* C9: a losing close adds exactly 1 to consecutive_losses, a winning close
\* sets it to 0 (cooldown active or not); the losing close that brings the
\* counter to the configured threshold leaves the cooldown active with
\* cooldown_start_time at its timestamp, and the cooldown flag rises on no
\* other step: only on a close that completes a run of threshold losses.
C9_StreakStep ==
    IF Called("close_position") /\ last_call'.ret
    THEN LET pnl == LastTrade(broker').pnl
             loss == DLt(pnl, Zero)
             reaches == loss /\ broker'.consecutive_losses = broker.max_consecutive_loss
         IN  /\ loss => broker'.consecutive_losses = broker.consecutive_losses + 1
             /\ DGt(pnl, Zero) => broker'.consecutive_losses = 0
             /\ reaches => /\ broker'.is_cooldown_activate
                           /\ broker'.cooldown_start_time = last_call'.timestamp
             /\ ~broker.is_cooldown_activate /\ broker'.is_cooldown_activate
                  => reaches /\ LastLost(broker'.trades, broker.max_consecutive_loss)
    ELSE broker'.is_cooldown_activate => broker.is_cooldown_activate

C9_LossStreak == [][C9_StreakStep]_vars

\* three losing closes in a row under threshold 3 have just activated the
\* cooldown
C9_Witness ==
    /\ broker.max_consecutive_loss = 3
    /\ last_call.op = "close_position" /\ last_call.ret
    /\ broker.consecutive_losses = 3
    /\ LastLost(broker.trades, 3)
    /\ broker.is_cooldown_activate
    /\ broker.cooldown_start_time = last_call.timestamp

\* a winning close while the cooldown is active has reset the counter
C9_WinDuringCooldown ==
    /\ last_call.op = "close_position" /\ last_call.ret
    /\ DGt(LastTrade(broker).pnl, Zero)
    /\ broker.is_cooldown_activate
    /\ broker.consecutive_losses = 0

\* C10: with the cooldown activated by the threshold-reaching loss closed at
\* T, can_open_position(t) returns false while t - T < cooldown_period, and
\* its cooldown check passes once t - T >= cooldown_period.
C10_WindowFromActivation ==
    [][Called("can_open_position") /\ activated_at # 0
         => LET elapsed == last_call'.timestamp - activated_at
            IN  /\ elapsed < cooldown_period * 1000 => ~last_call'.ret
                /\ elapsed >= cooldown_period * 1000 => last_call'.checks.cooldown]_vars

\* the cooldown fields of the ledger
CooldownState(self) ==
    <<self.consecutive_losses, self.cooldown_start_time, self.is_cooldown_activate>>

\* C11: the cooldown check of can_open_position returns true and changes
\* nothing when no cooldown is active; it returns false and changes nothing
\* while now - cooldown_start_time < cooldown_period (so also right at the
\* activation); the first check at or after the expiry returns true, sets
\* consecutive_losses to 0 and clears the flag.  From there the counter grows
\* only by one per losing close, and the flag rises again only when the
\* counter has reached max_consecutive_loss.
C11_CooldownStep ==
    /\ Called("can_open_position") =>
         LET elapsed == last_call'.timestamp - broker.cooldown_start_time
             ret == last_call'.checks.cooldown
         IN  IF ~broker.is_cooldown_activate
             THEN ret /\ CooldownState(broker') = CooldownState(broker)
             ELSE IF elapsed < cooldown_period * 1000
             THEN ~ret /\ CooldownState(broker') = CooldownState(broker)
             ELSE ret /\ CooldownState(broker') = <<0, 0, FALSE>>
    /\ broker'.consecutive_losses > broker.consecutive_losses =>
         /\ Called("close_position") /\ last_call'.ret
         /\ DLt(LastTrade(broker').pnl, Zero)
         /\ broker'.consecutive_losses = broker.consecutive_losses + 1
    /\ ~broker.is_cooldown_activate /\ broker'.is_cooldown_activate =>
         broker'.consecutive_losses = broker.max_consecutive_loss

C11_Cooldown == [][C11_CooldownStep]_vars

\* a cooldown has expired and been reset by a check, and the next losing
\* close, although it extends an unbroken run of losses longer than the
\* threshold, counts as the first of a fresh run
C11_Witness ==
    /\ last_call.op = "close_position" /\ last_call.ret
    /\ LastLost(broker.trades, broker.max_consecutive_loss + 1)
    /\ broker.consecutive_losses = 1
    /\ ~broker.is_cooldown_activate

\* a check made at the very timestamp of the activation is refused
C11_RefusedAtActivation ==
    /\ last_call.op = "can_open_position"
    /\ ~last_call.checks.cooldown
    /\ broker.is_cooldown_activate
    /\ last_call.timestamp = broker.cooldown_start_time

\* the daily fields of the ledger
DailyState(self) ==
    <<self.account_info.daily_trades, self.account_info.daily_pnl, self.last_reset_time>>

\* what the claim says a risk check does to the daily fields of the pre-state
\* self.  While the marker is unset (0) the last reset boundary is taken to
\* be the day the ledger was created.
DailyResetAsClaimed(self, after, timestamp) ==
    LET boundary == IF self.last_reset_time = 0 THEN StartTime ELSE self.last_reset_time
    IN  IF UtcDate(timestamp) > UtcDate(boundary)
        THEN /\ after.account_info.daily_trades = 0
             /\ after.account_info.daily_pnl = Zero
             /\ UtcDate(after.last_reset_time) = UtcDate(timestamp)
        ELSE /\ after.account_info.daily_trades = self.account_info.daily_trades
             /\ after.account_info.daily_pnl = self.account_info.daily_pnl
             /\ self.last_reset_time # 0 => after.last_reset_time = self.last_reset_time

\* C12: a risk check at a timestamp whose UTC date is later than the UTC
\* date of last_reset_time resets daily_trades and daily_pnl to 0 and moves
\* the marker to that day; a check on the day of the marker changes none of
\* the three.
C12_DailyReset ==
    [][Called("can_open_position")
         => DailyResetAsClaimed(broker, broker', last_call'.timestamp)]_vars

\* the same, for the checks made once the marker has been set
C12_ResetOnceMarked ==
    [][Called("can_open_position") /\ broker.last_reset_time # 0
         => DailyResetAsClaimed(broker, broker', last_call'.timestamp)]_vars

\* a check on a later day than the marker has reset counters that were not 0
C12_ResetSeen ==
    /\ last_call.op = "can_open_position"
    /\ broker.last_reset_time = UtcDate(last_call.timestamp) * DayMs
    /\ broker.account_info.daily_trades = 0
    /\ broker.account_info.total_trades > 0
    /\ Len(broker.trades) = 0

\* ------------------------------------------------------------------------
\* Strategy selection (core/risk_control.py, core/strategy.py)
\* ------------------------------------------------------------------------
\* what check_trend_filter answers for one timeframe
Trends == {"long", "short", "sideway"}

\* the four variants, in the order of the lists of strategy_map
Variants == <<"trend_long", "trend_short", "mean_rev_long", "mean_rev_short">>

\* a map that has lost the key of three sideway timeframes
strategy_map_partial ==
    [trend_key \in [1..3 -> Trends] \ {<<"sideway", "sideway", "sideway">>} |-> Variants]

\* strategy_map: the keys as the dict literal lists them (lines 146-172), each
\* mapped to the four variants
strategy_map ==
    [trend_key \in
        {<<"long", "long", "long">>, <<"long", "long", "short">>, <<"long", "long", "sideway">>,
         <<"long", "short", "long">>, <<"long", "short", "short">>, <<"long", "short", "sideway">>,
         <<"long", "sideway", "long">>, <<"long", "sideway", "short">>, <<"long", "sideway", "sideway">>,
         <<"short", "long", "long">>, <<"short", "long", "short">>, <<"short", "long", "sideway">>,
         <<"short", "short", "long">>, <<"short", "short", "short">>, <<"short", "short", "sideway">>,
         <<"short", "sideway", "long">>, <<"short", "sideway", "short">>, <<"short", "sideway", "sideway">>,
         <<"sideway", "long", "long">>, <<"sideway", "long", "short">>, <<"sideway", "long", "sideway">>,
         <<"sideway", "short", "long">>, <<"sideway", "short", "short">>, <<"sideway", "short", "sideway">>,
         <<"sideway", "sideway", "long">>, <<"sideway", "sideway", "short">>, <<"sideway", "sideway", "sideway">>} |->
        Variants]

\* RiskControl.select_strategy: the list of eligible strategies
select_strategy(trend, volume_ok, bandwidth_ok) ==
    IF volume_ok /\ bandwidth_ok
    THEN IF trend \in DOMAIN strategy_map THEN strategy_map[trend] ELSE <<"no_trade">>
    ELSE <<"no_trade">>

\* strategy_type == "...": a list compared with a str is never equal
ListEqStr(list, str) == FALSE

\* Strategy.select after select_strategy has answered strategy_type; signals
\* holds the four entry predicates of the bar, check_slippage the answer of
\* position_manager.check_slippage
select(strategy_type, signals, check_slippage) ==
    IF ListEqStr(strategy_type, "no_trade") THEN "no_trade"
    ELSE IF ListEqStr(strategy_type, "trend")
    THEN IF signals.trend_long /\ check_slippage THEN "trend_long"
         ELSE IF signals.trend_short /\ check_slippage THEN "trend_short"
         ELSE "no_trade"
    ELSE IF ListEqStr(strategy_type, "mean_reversion")
    THEN IF signals.mean_rev_long /\ check_slippage THEN "mean_rev_long"
         ELSE IF signals.mean_rev_short /\ check_slippage THEN "mean_rev_short"
         ELSE "no_trade"
    ELSE "no_trade"

\* the entry predicates of a bar
EntryPredicates ==
    [trend_long : BOOLEAN, trend_short : BOOLEAN,
     mean_rev_long : BOOLEAN, mean_rev_short : BOOLEAN]

SelectInit ==
    /\ broker = BrokerInit(2)
    /\ clock = StartTime
    /\ run = [i |-> 0, k |-> 0, status |-> "idle"]
    /\ last_call = [op |-> "init"]
    /\ activated_at = 0

\* one call of Strategy.select on the data of a bar
Select ==
    /\ \E trend \in [1..3 -> Trends], volume_ok \in BOOLEAN, bandwidth_ok \in BOOLEAN,
          signals \in EntryPredicates, check_slippage \in BOOLEAN :
       \E strategy_type \in {select_strategy(trend, volume_ok, bandwidth_ok)} :
            last_call' = [op |-> "select", trend |-> trend, volume_ok |-> volume_ok,
                          bandwidth_ok |-> bandwidth_ok, signals |-> signals,
                          check_slippage |-> check_slippage,
                          strategy_type |-> strategy_type,
                          ret |-> select(strategy_type, signals, check_slippage)]
    /\ UNCHANGED <<broker, clock, run, activated_at>>

SelectSpec == SelectInit /\ [][Select]_vars

\* the variants of an eligible list
Eligible(strategy_type) ==
    {strategy_type[i] : i \in 1..Len(strategy_type)} \ {"no_trade"}

\* the first variant, in the fixed order, that is eligible, has its entry
\* predicate true and passes the slippage check
RECURSIVE FirstQualified(_, _, _, _)
FirstQualified(i, eligible, signals, check_slippage) ==
    IF i > Len(Variants) THEN "no_trade"
    ELSE IF Variants[i] \in eligible /\ signals[Variants[i]] /\ check_slippage
    THEN Variants[i]
    ELSE FirstQualified(i + 1, eligible, signals, check_slippage)

\* C13: select answers no_trade for an empty eligible set, otherwise the
\* first variant in the order trend_long, trend_short, mean_rev_long,
\* mean_rev_short that is eligible, whose entry predicate is true and for
\* which the slippage check passes, and no_trade only when there is none.
C13_FirstQualifying ==
    [][Called("select")
         => last_call'.ret = FirstQualified(1, Eligible(last_call'.strategy_type),
                                            last_call'.signals,
                                            last_call'.check_slippage)]_vars

\* what does hold: the answer is no_trade or one eligible variant
C13_WithinEligible ==
    [][Called("select")
         => last_call'.ret \in Eligible(last_call'.strategy_type) \cup {"no_trade"}]_vars

\* select has been asked with all four variants eligible, the trend-long
\* predicate true and the slippage check passing
C13_TrendLongQualifies ==
    /\ last_call.op = "select"
    /\ Eligible(last_call.strategy_type) = {"trend_long", "trend_short",
                                            "mean_rev_long", "mean_rev_short"}
    /\ last_call.signals.trend_long /\ last_call.check_slippage

\* C14: a can_open_position call changes nothing in the ledger (account
\* state, daily counters, reset marker, cooldown state, positions), and the
\* same call repeated on the ledger it leaves returns the same answer.
C14_SideEffectFree ==
    [][Called("can_open_position")
         => /\ broker' = broker
            /\ can_open_position(broker', last_call'.timestamp).ret = last_call'.ret]_vars

\* ------------------------------------------------------------------------
\* check_trailing_stop called bar after bar on one trend position
\* ------------------------------------------------------------------------
MaxTrailBars == 3

\* the bars shown to the check: [high, low] around the activation prices of a
\* long (50500) and of a short (49500) entered at 50000
TrailBars ==
    {[high |-> DecLit(51500, 0, 0), low |-> DecLit(51300, 0, 0)],
     [high |-> DecLit(51500, 0, 0), low |-> DecLit(51000, 0, 0)],
     [high |-> DecLit(51000, 0, 0), low |-> DecLit(50800, 0, 0)],
     [high |-> DecLit(51000, 0, 0), low |-> DecLit(50500, 0, 0)],
     [high |-> DecLit(50400, 0, 0), low |-> DecLit(50100, 0, 0)],
     [high |-> DecLit(49900, 0, 0), low |-> DecLit(49600, 0, 0)],
     [high |-> DecLit(49500, 0, 0), low |-> DecLit(49000, 0, 0)],
     [high |-> DecLit(49200, 0, 0), low |-> DecLit(49000, 0, 0)],
     [high |-> DecLit(49000, 0, 0), low |-> DecLit(48500, 0, 0)],
     [high |-> DecLit(48700, 0, 0), low |-> DecLit(48500, 0, 0)]}

\* a trend position opened the way the engine opens it (engine.py 221-231)
TrailInit ==
    /\ \E side \in {"BUY", "SELL"} :
       \E price \in {Quote("BTCUSDT", StartTime)} :
            broker = open_position(BrokerInit(2), "BTCUSDT", side, Tenth, price, StartTime,
                                   IF side = "BUY" THEN "trend_long" ELSE "trend_short",
                                   set_stop_loss(TRUE, price, side), None,
                                   set_trailing_activate_price(price, side),
                                   set_trailing_price_rate).self
    /\ clock = StartTime
    /\ run = [i |-> 0, k |-> 0, status |-> "idle"]
    /\ last_call = [op |-> "init", armed |-> FALSE, stop_price |-> None]
    /\ activated_at = 0

\* one call of check_trailing_stop with the high and low of the next bar.
\* last_call keeps, besides the call, whether some bar so far has passed the
\* activation price and the callback price of the latest bar that did.
CheckTrailingStop ==
    /\ run.i < MaxTrailBars
    /\ \E bar \in TrailBars :
       \E position \in {broker.positions["BTCUSDT"]} :
       \E r \in {check_trailing_stop(broker, "BTCUSDT", bar.high, bar.low)} :
            /\ broker' = r.self
            /\ last_call' =
                 [op |-> "check_trailing_stop", symbol |-> "BTCUSDT",
                  high_price |-> bar.high, low_price |-> bar.low, ret |-> r.ret,
                  armed |-> last_call.armed
                              \/ trailing_activated(position, bar.high, bar.low),
                  stop_price |-> IF trailing_activated(position, bar.high, bar.low)
                                 THEN stop_price(position, bar.high, bar.low)
                                 ELSE last_call.stop_price]
    /\ run' = [run EXCEPT !.i = @ + 1]
    /\ clock' = clock + BarMs
    /\ UNCHANGED activated_at

TrailSpec == TrailInit /\ [][CheckTrailingStop]_vars

\* price * (1 - rate / 100) for a long, price * (1 + rate / 100) for a short,
\* written out apart from the ledger
CallbackLevel(side, extreme, rate) ==
    IF side = "BUY" THEN DMulCtx(extreme, DSub(One, DDiv(rate, Hundred)))
    ELSE DMulCtx(extreme, DAdd(One, DDiv(rate, Hundred)))

\* C15: check_trailing_stop returns true only for a bar that has passed the
\* activation price in the favourable direction (high above it for a long,
\* low below it for a short) and whose other extreme has come back to the
\* callback price, the bar's favourable extreme moved by the callback rate;
\* it then sets stop_loss to that callback price and nothing else.  A call
\* that returns false leaves the ledger as it was.
C15_TrailingStep ==
    Called("check_trailing_stop") =>
        LET position == broker.positions[last_call'.symbol]
            high == last_call'.high_price
            low == last_call'.low_price
            long == position.side = "BUY"
            level == CallbackLevel(position.side, IF long THEN high ELSE low,
                                   position.price_rate)
        IN  IF last_call'.ret
            THEN /\ IF long THEN DGt(high, position.trailing_stop) /\ DLe(low, level)
                    ELSE DLt(low, position.trailing_stop) /\ DGe(high, level)
                 /\ broker' = [broker EXCEPT !.positions[last_call'.symbol].stop_loss = level]
            ELSE broker' = broker

C15_Trailing == [][C15_TrailingStep]_vars

\* a long whose bar went above the activation price and came back to the
\* callback price: the check fired and the stop sits at high * 0.995
C15_Witness ==
    /\ last_call.op = "check_trailing_stop" /\ last_call.ret
    /\ broker.positions["BTCUSDT"].side = "BUY"
    /\ DGt(last_call.high_price, broker.positions["BTCUSDT"].trailing_stop)
    /\ broker.positions["BTCUSDT"].stop_loss = DecLit(51242, 5000, 0)

\* C16: once some earlier bar of the position has passed the activation
\* price, the stop stays armed: a later bar that comes back to the callback
\* price in force fires, whether or not that bar passes the activation price
\* itself.
C16_ArmedStep ==
    (/\ Called("check_trailing_stop")
     /\ last_call.armed /\ ~last_call.ret
     /\ IF broker.positions["BTCUSDT"].side = "BUY"
        THEN DLe(last_call'.low_price, last_call.stop_price)
        ELSE DGe(last_call'.high_price, last_call.stop_price))
    => last_call'.ret

C16_PersistentArming == [][C16_ArmedStep]_vars

\* an armed long is shown a bar that stays under the activation price and
\* falls through the callback price of the arming bar: nothing fires
C16_RetraceIgnored ==
    /\ last_call.op = "check_trailing_stop" /\ last_call.armed /\ ~last_call.ret
    /\ broker.positions["BTCUSDT"].side = "BUY"
    /\ DLt(last_call.high_price, broker.positions["BTCUSDT"].trailing_stop)
    /\ DLt(last_call.low_price, last_call.stop_price)

\* C17: from one call to the next on an armed position the callback price
\* never moves against the trade: it does not decrease for a long and does
\* not increase for a short.
C17_RatchetStep ==
    (Called("check_trailing_stop") /\ last_call.armed) =>
        IF broker.positions["BTCUSDT"].side = "BUY"
        THEN DGe(last_call'.stop_price, last_call.stop_price)
        ELSE DLe(last_call'.stop_price, last_call.stop_price)

C17_Ratchet == [][C17_RatchetStep]_vars

\* the fields a record gets when it is closed, blanked as in an open position
OpenPart(trade) ==
    [trade EXCEPT !.close_time = None, !.close_price = None, !.close_amt = None,
                  !.close_size = None, !.close_reason = None, !.pnl = None,
                  !.pnl_percentage = None]

\* C18: the record appended by a successful close is the position as it was
\* while open, the side it was opened with included, with the close fields
\* filled in.
C18_TradeStep ==
    (Called("close_position") /\ last_call'.ret) =>
        /\ OpenPart(LastTrade(broker')) = OpenPart(broker.positions[last_call'.symbol])
        /\ LastTrade(broker').close_time = last_call'.timestamp
        /\ LastTrade(broker').close_reason \in Reasons

C18_TradeKeepsPosition == [][C18_TradeStep]_vars

\* the same with the side left out: every other field of the open position
\* is carried over as it was
C18_ButSideStep ==
    (Called("close_position") /\ last_call'.ret) =>
        /\ [OpenPart(LastTrade(broker')) EXCEPT !.side = FlipSide(@)]
              = OpenPart(broker.positions[last_call'.symbol])
        /\ LastTrade(broker').close_time = last_call'.timestamp
        /\ LastTrade(broker').close_amt = LastTrade(broker').open_amt

C18_ButSide == [][C18_ButSideStep]_vars

\* C19: the trade log only grows at its end, one record at a time, and the
\* records already in it stay as they are and where they are, whatever the
\* step is (open, close, risk check, trailing-stop update, engine step).  A
\* step that appends a record removes exactly that record's symbol from the
\* open positions, and every successful close_position is such a step.
C19_LogStep ==
    LET trades == broker.trades
        after == broker'.trades
    IN  /\ Len(trades) <= Len(after) /\ Len(after) <= Len(trades) + 1
        /\ SubSeq(after, 1, Len(trades)) = trades
        /\ Len(after) = Len(trades) + 1 =>
              /\ LastTrade(broker').symbol \in DOMAIN broker.positions
              /\ DOMAIN broker'.positions
                    = DOMAIN broker.positions \ {LastTrade(broker').symbol}
        /\ (Called("close_position") /\ last_call'.ret) =>
              /\ Len(after) = Len(trades) + 1
              /\ LastTrade(broker').symbol = last_call'.symbol

C19_AppendOnly == [][C19_LogStep]_vars

\* a second successful close: the log holds two records, the earlier one
\* closed no later than the newer one, and only the other symbol is open
C19_Witness ==
    /\ last_call.op = "close_position" /\ last_call.ret
    /\ Len(broker.trades) >= 2
    /\ broker.trades[1].close_time <= LastTrade(broker).close_time
    /\ last_call.symbol \notin DOMAIN broker.positions
    /\ DOMAIN broker.positions # {}

\* ------------------------------------------------------------------------
\* The risk gate asked on ledgers in any financial condition
\* ------------------------------------------------------------------------
\* a ledger with or without an open position; its equity after a run of
\* trades is wiped out, overdrawn, small or untouched, the day's result nil, a
\* loss or a gain, the day's count nil or full, the cooldown on or off
\* (the trade log and total_trades, which no check reads, stay as constructed)
GateInit ==
    /\ \E opened \in BOOLEAN, account_equity \in {Zero, DNeg(DecLit(100, 0, 0)), DecLit(100, 0, 0), initial_balance},
          daily_pnl \in {Zero, DNeg(DecLit(10, 0, 0)), DecLit(10, 0, 0)},
          daily_trades \in {0, max_daily_trades}, cooling \in BOOLEAN,
          last_reset_time \in {0, UtcDate(StartTime) * DayMs} :
        \E self \in {IF opened
                     THEN open_position(BrokerInit(2), "BTCUSDT", "BUY", Tenth,
                                        Quote("BTCUSDT", StartTime), StartTime,
                                        "None", None, None, None, None).self
                     ELSE BrokerInit(2)} :
            broker = [self EXCEPT !.account_info.account_equity = account_equity,
                                  !.account_info.daily_pnl = daily_pnl,
                                  !.account_info.daily_trades = daily_trades,
                                  !.last_reset_time = last_reset_time,
                                  !.consecutive_losses = IF cooling THEN 2 ELSE 0,
                                  !.cooldown_start_time = IF cooling THEN StartTime ELSE 0,
                                  !.is_cooldown_activate = cooling]
    /\ clock = StartTime
    /\ run = [i |-> 0, k |-> 0, status |-> "idle"]
    /\ last_call = [op |-> "init"]
    /\ activated_at = 0

GateSpec == GateInit /\ [][CanOpenPosition \/ Tick]_vars

\* C20: every check behind can_open_position answers with a boolean in every
\* condition of the ledger, can_open_position is their conjunction, and on a
\* ledger whose equity is 0, where the margin ratio has no value, the margin
\* check answers false and so does can_open_position.
C20_GateStep ==
    Called("can_open_position") =>
        /\ \A c \in DOMAIN last_call'.checks : last_call'.checks[c] \in BOOLEAN
        /\ last_call'.ret = \A c \in DOMAIN last_call'.checks : last_call'.checks[c]
        /\ broker.account_info.account_equity = Zero =>
              ~last_call'.checks.margin /\ ~last_call'.ret

C20_NeverPassesByDefault == [][C20_GateStep]_vars

\* equity 0, nothing open, no loss today, no cooldown: the margin check alone
\* blocks the entry
C20_Witness ==
    /\ last_call.op = "can_open_position" /\ ~last_call.ret
    /\ broker.account_info.account_equity = Zero
    /\ DOMAIN broker.positions = {}
    /\ ~last_call.checks.margin
    /\ last_call.checks.daily_pnl /\ last_call.checks.daily_trades /\ last_call.checks.cooldown

\* ------------------------------------------------------------------------
\* The bar loop resumed on a ledger that has lost part of its balance
\* ------------------------------------------------------------------------
\* one trend position on the first symbol, sized by the engine on the full
\* balance (margin 6000), and an equity that earlier losses have brought to
\* 7000 or to 7600
MarginInit ==
    /\ \E side \in {"BUY", "SELL"}, account_equity \in {DecLit(7000, 0, 0), DecLit(7600, 0, 0)} :
       \E price \in {Quote("BTCUSDT", StartTime - BarMs)} :
       \E amount \in {calculate_position_size(BrokerInit(2), price, TRUE, DecLit(1, 2000, 0))} :
            broker = [open_position(BrokerInit(2), "BTCUSDT", side, amount, price,
                                    StartTime - BarMs,
                                    IF side = "BUY" THEN "trend_long" ELSE "trend_short",
                                    set_stop_loss(TRUE, price, side), None,
                                    set_trailing_activate_price(price, side),
                                    set_trailing_price_rate).self
                      EXCEPT !.account_info.account_equity = account_equity]
    /\ clock = StartTime
    /\ run = [i |-> 0, k |-> 0, status |-> "running"]
    /\ last_call = [op |-> "init"]
    /\ activated_at = 0

MarginSpec == MarginInit /\ [][EngineNext]_vars

\* the margins of the open positions, over the equity, exceed max_margin_usage
MarginOverused(self) ==
    /\ self.account_info.account_equity # Zero
    /\ DGt(DDiv(SumMargin(self.positions, DOMAIN self.positions),
                self.account_info.account_equity),
           max_margin_usage)

\* C21: while the margins of the open positions over the equity exceed
\* max_margin_usage, the margin check and can_open_position answer false, and
\* an engine step for a symbol opens nothing and raises nothing: the gate
\* answers no (or is not reached because the symbol's position was closed),
\* open_position is not called and no symbol is added to the positions.
C21_MarginStep ==
    MarginOverused(broker) =>
        /\ Called("can_open_position") =>
              ~last_call'.checks.margin /\ ~last_call'.ret
        /\ Called("step") =>
              /\ last_call'.can_open \in {"no", "not_called"}
              /\ last_call'.can_open = "not_called" => last_call'.exit # "None"
              /\ last_call'.open = "not_called"
              /\ ~last_call'.raised /\ run'.status = "running"
              /\ DOMAIN broker'.positions \subseteq DOMAIN broker.positions

C21_MarginGate == [][C21_MarginStep]_vars

\* an engine step for a symbol without a position, with a strategy selected,
\* on a ledger whose margin usage is over the limit: the gate said no, nothing
\* was opened and the run goes on
C21_Witness ==
    /\ last_call.op = "step" /\ last_call.can_open = "no"
    /\ last_call.symbol \notin DOMAIN broker.positions
    /\ DOMAIN broker.positions # {}
    /\ MarginOverused(broker)
    /\ ~check_margin_usage(broker)
    /\ check_daily_pnl(broker)
    /\ run.status = "running"

\* ------------------------------------------------------------------------
\* can_close_position asked at times that fall anywhere inside the bars
\* ------------------------------------------------------------------------
MaxHoldCalls == 4

\* one position of either class, opened on a bar boundary, just after it or
\* in the last millisecond of the bar
HoldInit ==
    /\ \E strategy \in {"trend_long", "mean_rev_short"},
          open_time \in {StartTime, StartTime + 1, StartTime + BarMs - 1} :
            /\ broker = open_position(BrokerInit(2), "BTCUSDT",
                                      IF EndsWithLong(strategy) THEN "BUY" ELSE "SELL",
                                      Tenth, Quote("BTCUSDT", StartTime), open_time,
                                      strategy, None, None, None, None).self
            /\ clock = open_time
    /\ run = [i |-> 0, k |-> 0, status |-> "idle"]
    /\ last_call = [op |-> "init"]
    /\ activated_at = 0

\* one call of can_close_position, at the time of the previous call or up to
\* a bar later
CanClosePosition ==
    /\ run.i < MaxHoldCalls
    /\ \E symbol \in Symbols, is_trend \in BOOLEAN, elapsed \in {0, 1, BarMs - 1, BarMs} :
            /\ clock' = clock + elapsed
            /\ last_call' = [op |-> "can_close_position", symbol |-> symbol,
                             timestamp |-> clock + elapsed, is_trend |-> is_trend,
                             ret |-> can_close_position(broker, symbol, clock + elapsed,
                                                        is_trend)]
    /\ run' = [run EXCEPT !.i = @ + 1]
    /\ UNCHANGED <<broker, activated_at>>

HoldSpec == HoldInit /\ [][CanClosePosition]_vars

\* the bars begun after open_time and up to now: the bar boundaries in
\* (open_time, now]
BarsBegun(open_time, now) ==
    Cardinality({b \in (open_time \div BarMs)..(now \div BarMs) :
                    open_time < b * BarMs /\ b * BarMs <= now})

\* C22: for a symbol with an open position can_close_position is true
\* exactly when the number of whole bars between the bar of the open and the
\* bar of the call has reached the limit of the class asked for (trend or
\* mean reversion); the part of a bar elapsed on either side does not count.
\* The call changes nothing.
C22_HoldStep ==
    (Called("can_close_position") /\ last_call'.symbol \in DOMAIN broker.positions) =>
        /\ last_call'.ret =
              (BarsBegun(broker.positions[last_call'.symbol].open_time, last_call'.timestamp)
                 >= IF last_call'.is_trend THEN max_trend_holding_bars
                    ELSE max_mean_rev_holding_bars)
        /\ broker' = broker

C22_HoldingPeriod == [][C22_HoldStep]_vars

\* opened in the last millisecond of a bar and asked before two bars of
\* time have passed: two bars have begun since, so the mean-reversion limit
\* is reached
C22_Witness ==
    /\ last_call.op = "can_close_position" /\ last_call.ret /\ ~last_call.is_trend
    /\ last_call.symbol \in DOMAIN broker.positions
    /\ broker.positions[last_call.symbol].open_time = StartTime + BarMs - 1
    /\ last_call.timestamp - broker.positions[last_call.symbol].open_time < 2 * BarMs

\* the counterpart: a trend position is kept while fewer than three bars
\* have begun, however close to three bars the elapsed time is
C22_StillHeld ==
    /\ last_call.op = "can_close_position" /\ ~last_call.ret /\ last_call.is_trend
    /\ last_call.symbol \in DOMAIN broker.positions
    /\ last_call.timestamp - broker.positions[last_call.symbol].open_time >= 3 * BarMs - 2

\* ------------------------------------------------------------------------
\* check_stop_loss and check_take_profit asked with any bar
\* ------------------------------------------------------------------------
\* a position as the engine opens it for each strategy (engine.py 221-245),
\* or one opened without exit levels
ExitInit ==
    /\ \E strategy \in (Strategies \ {"no_trade"}) \cup {"None"} :
       \E side \in {IF EndsWithLong(strategy) THEN "BUY" ELSE "SELL"},
          price \in {Quote("BTCUSDT", StartTime)} :
            broker = open_position(BrokerInit(2), "BTCUSDT", side, Tenth, price, StartTime,
                        strategy,
                        IF strategy = "None" THEN None
                        ELSE set_stop_loss(IsTrend(strategy), price, side),
                        IF strategy = "None" \/ IsTrend(strategy) THEN None
                        ELSE set_take_profit(price, side),
                        IF IsTrend(strategy) THEN set_trailing_activate_price(price, side)
                        ELSE None,
                        IF IsTrend(strategy) THEN set_trailing_price_rate ELSE None).self
    /\ clock = StartTime
    /\ run = [i |-> 0, k |-> 0, status |-> "idle"]
    /\ last_call = [op |-> "init"]
    /\ activated_at = 0

\* both checks called for a symbol with the high and the low of a bar, the
\* prices taken on, next to and between the exit levels of an entry at 50000
CheckExits ==
    /\ \E symbol \in Symbols :
       \E high_price, low_price \in
             {DecLit(49000, 0, 0), DecLit(49000, 0, 1), DecLit(49500, 0, 0),
              DecLit(50000, 0, 0), DecLit(50500, 0, 0), DecLit(50999, 9999, 9999),
              DecLit(51000, 0, 0)} :
            /\ DLe(low_price, high_price)
            /\ last_call' = [op |-> "check_exits", symbol |-> symbol,
                             high_price |-> high_price, low_price |-> low_price,
                             stop_loss |-> check_stop_loss(broker, symbol, high_price,
                                                           low_price),
                             take_profit |-> check_take_profit(broker, symbol, high_price,
                                                               low_price)]
    /\ UNCHANGED <<broker, clock, run, activated_at>>

ExitSpec == ExitInit /\ [][CheckExits]_vars

\* C23: check_stop_loss is true exactly when the symbol has a position with
\* a stop and the bar reaches it (long: low <= stop; short: high >= stop);
\* check_take_profit is true exactly when the symbol has a position with a
\* target and the bar reaches it (long: high >= target; short: low <= target).
\* Both are false for a symbol without a position, and the ledger is as it
\* was after the calls.
C23_ExitStep ==
    Called("check_exits") =>
        LET symbol == last_call'.symbol
            held == symbol \in DOMAIN broker.positions
            high == last_call'.high_price
            low == last_call'.low_price
        IN  /\ last_call'.stop_loss =
                  (/\ held
                   /\ broker.positions[symbol].stop_loss # None
                   /\ IF broker.positions[symbol].side = "BUY"
                      THEN ~DLt(broker.positions[symbol].stop_loss, low)
                      ELSE ~DLt(high, broker.positions[symbol].stop_loss))
            /\ last_call'.take_profit =
                  (/\ held
                   /\ broker.positions[symbol].take_profit # None
                   /\ IF broker.positions[symbol].side = "BUY"
                      THEN ~DLt(high, broker.positions[symbol].take_profit)
                      ELSE ~DLt(broker.positions[symbol].take_profit, low))
            /\ ~held => ~last_call'.stop_loss /\ ~last_call'.take_profit
            /\ broker' = broker

C23_StopAndTarget == [][C23_ExitStep]_vars

\* a mean-reversion short, stop 50500 and target 49000, shown a bar whose
\* high is exactly the stop and whose low is one hundred-millionth above the
\* target: the stop triggers, the target does not
C23_Witness ==
    /\ last_call.op = "check_exits" /\ last_call.symbol \in DOMAIN broker.positions
    /\ broker.positions[last_call.symbol].side = "SELL"
    /\ broker.positions[last_call.symbol].take_profit # None
    /\ last_call.high_price = broker.positions[last_call.symbol].stop_loss
    /\ last_call.low_price = DecLit(49000, 0, 1)
    /\ last_call.stop_loss /\ ~last_call.take_profit

\* ------------------------------------------------------------------------
\* Broker.__init__ and utils/config.py: what a configuration key that is
\* asked for resolves to
\* ------------------------------------------------------------------------
\* the parameters Broker.__init__ asks check_config_parameters for (lines
\* 44-58) and converts with int() or Decimal() (lines 61-73)
BrokerParams ==
    {"max_margin_usage", "max_daily_loss", "max_daily_trades", "consecutive_losses",
     "cooldown_period", "max_trend_holding_bars", "max_mean_rev_holding_bars",
     "risk_per_trade", "activate_price_rate", "trailing_percent", "max_loss_percent",
     "mean_reversion_sl", "mean_reversion_tp"}

\* the keys read from the dict handed to the constructor, each with a
\* default (lines 39-41 and 77)
RunParams == {"fee", "slippage", "leverage", "initial_balance"}

\* check_config_parameters: config.get(section, {}).get(param) for a
\* parameter listed under the trading section (lines 79-81) or the
\* risk_control section (lines 101-104), None for a parameter of no section;
\* settings is the set of keys settings.yaml holds
check_config_parameters(required_params, settings) ==
    [param \in required_params |->
        IF param \in {"leverage", "price_protect", "activate_price_rate",
                      "trailing_percent", "max_loss_percent", "mean_reversion_tp",
                      "mean_reversion_sl", "symbol_list",
                      "risk_per_trade", "max_margin_usage", "max_daily_loss",
                      "max_daily_trades", "slippage_percent", "max_holding_bars",
                      "consecutive_losses", "cooldown_period", "min_bandwidth_threshold"}
        THEN IF param \in settings THEN "settings" ELSE "None"
        ELSE "None"]

\* Broker.__init__: where each value comes from, and whether a conversion
\* raised (Decimal(str(None)) is an InvalidOperation, int(None) a TypeError).
\* The initial balance is read at line 77, after the conversions.
BrokerNew(config, settings) ==
    LET params == check_config_parameters(BrokerParams, settings)
        raised == \E param \in BrokerParams : params[param] = "None"
    IN  [taken |-> [param \in RunParams |->
                       IF param = "initial_balance" /\ raised THEN "not_reached"
                       ELSE IF param \in config THEN "config" ELSE "default"],
         params |-> params, raised |-> raised]

\* a Broker is built from a run configuration and a settings.yaml that lack
\* any of the run keys and at most one of the other keys
NewBroker ==
    /\ \E config \in SUBSET RunParams,
          absent \in {{}} \cup {{param} : param \in BrokerParams} :
       \E r \in {BrokerNew(config, BrokerParams \ absent)} :
            /\ last_call' = [op |-> "Broker", config |-> config,
                             missing |-> (RunParams \ config) \cup absent,
                             taken |-> r.taken, params |-> r.params, raised |-> r.raised]
            /\ broker' = IF r.raised THEN None ELSE BrokerInit(2)
    /\ UNCHANGED <<clock, run, activated_at>>

ConfigInit ==
    /\ broker = None
    /\ clock = StartTime
    /\ run = [i |-> 0, k |-> 0, status |-> "idle"]
    /\ last_call = [op |-> "init"]
    /\ activated_at = 0

ConfigSpec == ConfigInit /\ [][NewBroker]_vars

\* C24: building the Broker with a required key missing raises, and no
\* missing key is answered with a built-in default or with None.
C24_ConfigStep ==
    (Called("Broker") /\ last_call'.missing # {}) =>
        /\ last_call'.raised
        /\ \A param \in last_call'.missing :
              /\ param \in RunParams => last_call'.taken[param] # "default"
              /\ param \in DOMAIN last_call'.params => last_call'.params[param] # "None"

C24_MissingKeyFatal == [][C24_ConfigStep]_vars

\* with every key of settings.yaml in place the two holding-bar limits still
\* resolve to None: they are in no section check_config_parameters knows
C24_HoldingBarsUnknown ==
    /\ last_call.op = "Broker" /\ last_call.missing = {}
    /\ last_call.params["max_trend_holding_bars"] = "None"
    /\ last_call.params["max_mean_rev_holding_bars"] = "None"
    /\ last_call.raised

\* at most eight fractional digits (a level or amount that is not set passes)
EightDigits(value) == value = None \/ value.exp <= QuantLimbs

\* the monetary fields of a position or of a trade record
MoneyFields ==
    {"open_price", "open_amt", "open_size", "close_price", "close_amt", "close_size",
     "margin", "stop_loss", "take_profit", "trailing_stop", "pnl", "pnl_percentage"}

\* C25: every monetary value the ledger holds has at most eight fractional
\* digits: the equity, the total and the daily pnl, and in every open position
\* and every trade record the prices, amounts, notionals, margin, pnl and the
\* stop-loss, take-profit and trailing levels.
C25_EightDigits ==
    /\ EightDigits(broker.account_info.account_equity)
    /\ EightDigits(broker.account_info.total_pnl)
    /\ EightDigits(broker.account_info.daily_pnl)
    /\ \A symbol \in DOMAIN broker.positions : \A field \in MoneyFields :
          EightDigits(broker.positions[symbol][field])
    /\ \A k \in 1..Len(broker.trades) : \A field \in MoneyFields :
          EightDigits(broker.trades[k][field])

\* what the ledger computes itself is rounded: the account, and the fill
\* price, notional, margin, pnl and pnl percentage of positions and trades
C25_ComputedRounded ==
    /\ EightDigits(broker.account_info.account_equity)
    /\ EightDigits(broker.account_info.total_pnl)
    /\ EightDigits(broker.account_info.daily_pnl)
    /\ \A symbol \in DOMAIN broker.positions :
          \A field \in {"open_price", "open_size", "margin"} :
              EightDigits(broker.positions[symbol][field])
    /\ \A k \in 1..Len(broker.trades) :
          \A field \in {"open_price", "open_size", "margin", "close_price", "close_size",
                        "pnl", "pnl_percentage"} :
              EightDigits(broker.trades[k][field])

\* C26: whatever the three trend labels are, when the volume filter and the
\* bandwidth filter both pass select_strategy answers with the list mapped to
\* the labels, which names at least one variant and never the fallback
\* no_trade; when either filter fails it answers no_trade alone.
C26_TotalStep ==
    Called("select") =>
        IF last_call'.volume_ok /\ last_call'.bandwidth_ok
        THEN /\ last_call'.trend \in DOMAIN strategy_map
             /\ last_call'.strategy_type = strategy_map[last_call'.trend]
             /\ Eligible(last_call'.strategy_type) # {}
             /\ \A i \in 1..Len(last_call'.strategy_type) :
                   last_call'.strategy_type[i] # "no_trade"
        ELSE last_call'.strategy_type = <<"no_trade">>

C26_MappingTotal == [][C26_TotalStep]_vars

\* the last key of the map, with both filters passed: the four variants
C26_Witness ==
    /\ last_call.op = "select"
    /\ last_call.trend = <<"sideway", "sideway", "sideway">>
    /\ last_call.volume_ok /\ last_call.bandwidth_ok
    /\ last_call.strategy_type = Variants

\* a failed volume filter on a mapped key
C26_Filtered ==
    /\ last_call.op = "select"
    /\ last_call.trend = <<"long", "short", "sideway">>
    /\ ~last_call.volume_ok /\ last_call.bandwidth_ok
    /\ last_call.strategy_type = <<"no_trade">>

\* ------------------------------------------------------------------------
\* Two runs of BacktestEngine.run over the same bars, side by side
\* ------------------------------------------------------------------------
\* datetime.now() as the two runs may read it
WallClocks == {1700000000, 1800000123}

\* datetime.fromtimestamp(ms / 1000, tz=utc).replace(tzinfo=None).isoformat():
\* the UTC date and the time of day
isoformat(ms) == [date |-> UtcDate(ms), time |-> ms % DayMs]

\* a log that stamps every line with the time of writing
write_trade_logs_stamped(self, now) ==
    [file_name |-> <<"trades_", now, ".jsonl">>,
     lines |-> [n \in 1..Len(self.trades) |->
                   [trade |-> [self.trades[n] EXCEPT !.open_time = isoformat(@),
                                                     !.close_time = isoformat(@)],
                    written_at |-> now]]]

\* lines 731-760: the file is named after the wall clock, its lines are the
\* trades with the two times as ISO strings; now is what datetime.now() gives
write_trade_logs(self, now) ==
    [file_name |-> <<"trades_", now, ".jsonl">>,
     lines |-> [n \in 1..Len(self.trades) |->
                   [trade |-> [self.trades[n] EXCEPT !.open_time = isoformat(@),
                                                     !.close_time = isoformat(@)]]]]

\* broker holds the Broker of the first and of the second run
TwinInit ==
    /\ \E consecutive_losses \in EngineThresholds :
           broker = <<BrokerInit(consecutive_losses), BrokerInit(consecutive_losses)>>
    /\ clock = StartTime
    /\ run = [i |-> 0, k |-> 0, status |-> "running"]
    /\ last_call = [op |-> "init"]
    /\ activated_at = 0

\* lines 105-110: the head of the bar loop, in each run on its own equity
TwinStartBar ==
    /\ run.status = "running" /\ run.k = 0
    /\ \E left \in {[n \in 1..2 |->
                        run.i >= MaxBars
                        \/ DLe(broker[n].account_info.account_equity, Zero)]} :
           /\ run' = IF left[1] /\ left[2] THEN [run EXCEPT !.status = "finished"]
                     ELSE IF left[1] \/ left[2] THEN [run EXCEPT !.status = "apart"]
                     ELSE [run EXCEPT !.k = 1]
           /\ last_call' = [op |-> "bar", left |-> left]
    /\ UNCHANGED <<broker, clock, activated_at>>

\* lines 113-270 for symbol_list[k] in both runs, on the same data
TwinStepSymbol ==
    /\ run.status = "running" /\ run.k \in 1..Len(symbol_list)
    /\ \E symbol \in {symbol_list[run.k]} :
       \E should_close \in ExitSignals(broker[1], symbol),
          selected_strategy \in EntrySignals(broker[1], symbol) :
       \E size_multiplier \in SizingOutcomes(selected_strategy) :
       \E r \in {[n \in 1..2 |->
                    ProcessSymbol(broker[n], symbol, clock, should_close,
                                  selected_strategy, size_multiplier)]} :
            /\ broker' = <<r[1].self, r[2].self>>
            /\ run' = IF r[1].raised \/ r[2].raised THEN [run EXCEPT !.status = "raised"]
                      ELSE [run EXCEPT !.k = @ + 1]
            /\ last_call' = [op |-> "step", symbol |-> symbol, timestamp |-> clock,
                             outcome |-> [n \in 1..2 |->
                                 [exit |-> r[n].exit, exit_price |-> r[n].exit_price,
                                  can_open |-> r[n].can_open, open |-> r[n].open,
                                  amount |-> r[n].amount, raised |-> r[n].raised]]]
    /\ UNCHANGED <<clock, activated_at>>

\* lines 272-276: one equity sample in each run
TwinEndBar ==
    /\ run.status = "running" /\ run.k = Len(symbol_list) + 1
    /\ broker' = [n \in 1..2 |->
                     [broker[n] EXCEPT !.equity_curve =
                          Append(@, [timestamp |-> clock,
                                     equity |-> float_of(broker[n].account_info.account_equity)])]]
    /\ run' = [run EXCEPT !.i = @ + 1, !.k = 0]
    /\ clock' = clock + BarMs
    /\ last_call' = [op |-> "end_bar"]
    /\ UNCHANGED activated_at

\* line 279: after the loop each run writes its log, at its own wall-clock time
TwinWriteLogs ==
    /\ run.status = "finished"
    /\ \E now \in [1..2 -> WallClocks] :
           last_call' = [op |-> "write_trade_logs", now |-> now,
                         files |-> [n \in 1..2 |-> write_trade_logs(broker[n], now[n])]]
    /\ run' = [run EXCEPT !.status = "written"]
    /\ UNCHANGED <<broker, clock, activated_at>>

TwinSpec ==
    TwinInit /\ [][TwinStartBar \/ TwinStepSymbol \/ TwinEndBar \/ TwinWriteLogs]_vars

C27_FileNamesDiffer ==
    /\ last_call.op = "write_trade_logs"
    /\ last_call.files[1].file_name # last_call.files[2].file_name

\* ------------------------------------------------------------------------
\* The exits of a held position, bar after bar
\* ------------------------------------------------------------------------
MaxExitBars == 4

\* a position as the engine opens it, for each of the four strategies
PriorityInit ==
    /\ ExitInit
    /\ broker.positions["BTCUSDT"].strategy # "None"

\* lines 133-181 at the next bar for the held symbol: the bar before has any
\* high and low on, next to and between the exit levels, the signal says
\* either
ExitStep ==
    /\ run.i < MaxExitBars
    /\ \E symbol \in {"BTCUSDT"} \cap DOMAIN broker.positions :
       \E high_price, low_price \in
             {DecLit(49000, 0, 0), DecLit(49000, 0, 1), DecLit(49500, 0, 0),
              DecLit(50000, 0, 0), DecLit(50500, 0, 0), DecLit(50999, 9999, 9999),
              DecLit(51000, 0, 0)} :
       \E should_close \in BOOLEAN :
       \E r \in {ExitPhase(broker, symbol, clock + BarMs, Quote(symbol, StartTime),
                           high_price, low_price, should_close)} :
            /\ DLe(low_price, high_price)
            /\ broker' = r.self
            /\ last_call' = [op |-> "exit_phase", symbol |-> symbol,
                             timestamp |-> clock + BarMs,
                             high_price |-> high_price, low_price |-> low_price,
                             should_close |-> should_close,
                             exit |-> r.reason, exit_price |-> r.price]
    /\ clock' = clock + BarMs
    /\ run' = [run EXCEPT !.i = @ + 1]
    /\ UNCHANGED activated_at

PrioritySpec == PriorityInit /\ [][ExitStep]_vars

\* the exits of a held position, each on its own: the three passive ones
\* against the high and low of the bar before, the signal, the holding period
ExitsDue(self, symbol, current_time, high_price, low_price, should_close) ==
    LET position == self.positions[symbol]
    IN  [STOP_LOSS |-> position.stop_loss # None
                       /\ check_stop_loss(self, symbol, high_price, low_price),
         TAKE_PROFIT |-> position.take_profit # None
                         /\ check_take_profit(self, symbol, high_price, low_price),
         TRAILING_STOP |-> position.trailing_stop # None
                           /\ check_trailing_stop(self, symbol, high_price, low_price).ret,
         signal |-> should_close,
         holding |-> can_close_position(self, symbol, current_time,
                                        IsTrend(position.strategy))]

FirstDue(due) ==
    IF due.STOP_LOSS THEN "STOP_LOSS"
    ELSE IF due.TAKE_PROFIT THEN "TAKE_PROFIT"
    ELSE IF due.TRAILING_STOP THEN "TRAILING_STOP"
    ELSE IF due.signal \/ due.holding THEN "MANUAL"
    ELSE "None"

\* what a bar does to a held position whose first due exit is first
OneClose(first, symbol) ==
    /\ Len(broker'.trades) = Len(broker.trades) + (IF first = "None" THEN 0 ELSE 1)
    /\ first # "None" =>
           /\ LastTrade(broker').symbol = symbol
           /\ LastTrade(broker').close_reason = first
           /\ symbol \notin DOMAIN broker'.positions
    /\ first = "None" =>
           /\ symbol \in DOMAIN broker'.positions
           /\ broker'.trades = broker.trades

\* C28: at a bar, a held position is closed at most once, for the first
\* reason that is due in the order stop-loss, take-profit, trailing stop (each
\* on the high and low of the bar before), exit signal, holding period (the
\* last two both close as MANUAL); it is never closed for a reason that
\* follows one that is due, and it is left alone when none is due.
C28_PriorityStep ==
    Called("exit_phase") =>
        LET call == last_call'
            first == FirstDue(ExitsDue(broker, call.symbol, call.timestamp,
                                       call.high_price, call.low_price,
                                       call.should_close))
        IN  call.exit = first /\ OneClose(first, call.symbol)

C28_ExitPriority == [][C28_PriorityStep]_vars

\* the same in the bar loop of the engine, on the bars of the data; a step
\* that closed opens nothing, and a close that raised (a position of amount
\* 0) logs no trade
C28_EngineStep ==
    (Called("step") /\ last_call'.symbol \in DOMAIN broker.positions) =>
        LET call == last_call'
            first == FirstDue(ExitsDue(broker, call.symbol, call.timestamp,
                                       High(call.symbol, call.timestamp - BarMs),
                                       Low(call.symbol, call.timestamp - BarMs),
                                       call.should_close))
        IN  /\ call.exit = first
            /\ ~call.raised => OneClose(first, call.symbol)
            /\ call.raised => broker'.trades = broker.trades
            /\ first # "None" => call.open = "not_called"

C28_InEngine == [][C28_EngineStep]_vars

\* a bar on which stop-loss, trailing stop, signal and holding period are all
\* due: the position was closed at its stop-loss
C28_Witness ==
    /\ last_call.op = "exit_phase"
    /\ last_call.exit = "STOP_LOSS"
    /\ last_call.should_close
    /\ last_call.high_price = DecLit(51000, 0, 0)
    /\ last_call.low_price = DecLit(49000, 0, 0)
    /\ last_call.timestamp >= StartTime + max_trend_holding_bars * BarMs
    /\ LastTrade(broker).strategy = "trend_long"
    /\ LastTrade(broker).close_reason = "STOP_LOSS"

\* the passive exits of the position a step has just opened that are due on
\* the high and low of the bar before
DueAfterOpen(self, call) ==
    LET due == ExitsDue(self, call.symbol, call.timestamp,
                        High(call.symbol, call.timestamp - BarMs),
                        Low(call.symbol, call.timestamp - BarMs), FALSE)
    IN  due.STOP_LOSS \/ due.TAKE_PROFIT \/ due.TRAILING_STOP

\* C29: a step that opens a position on which a stop-loss, take-profit or
\* trailing stop is due on the high and low of the bar before closes it in
\* that same step: the symbol is free again and the trade is logged with the
\* bar as its open and close time.
C29_SameBarClose ==
    [][(Called("step") /\ last_call'.open = "ok") =>
          IF last_call'.symbol \in DOMAIN broker'.positions
          THEN ~DueAfterOpen(broker', last_call')
          ELSE /\ Len(broker'.trades) = Len(broker.trades) + 1
               /\ LastTrade(broker').symbol = last_call'.symbol
               /\ LastTrade(broker').open_time = last_call'.timestamp
               /\ LastTrade(broker').close_time = last_call'.timestamp]_vars

\* what the engine does: a step that opened leaves the position open and logs
\* no trade, whatever the bar before
C29_OpenStays ==
    [][(Called("step") /\ last_call'.open = "ok") =>
          /\ last_call'.symbol \in DOMAIN broker'.positions
          /\ broker'.trades = broker.trades
          /\ last_call'.exit = "None"]_vars

\* a position opened by a step whose stop-loss the bar before already reaches
C29_OpenedWhileDue ==
    /\ last_call.op = "step" /\ last_call.open = "ok"
    /\ last_call.symbol \in DOMAIN broker.positions
    /\ DueAfterOpen(broker, last_call)

\* ------------------------------------------------------------------------
\* The bar loop over the stretch of data with the gap
\* ------------------------------------------------------------------------
RuinInit ==
    /\ \E consecutive_losses \in EngineThresholds : broker = BrokerInit(consecutive_losses)
    /\ clock = CrashTime
    /\ run = [i |-> 0, k |-> 0, status |-> "running"]
    /\ last_call = [op |-> "init"]
    /\ activated_at = 0

RuinSpec == RuinInit /\ [][EngineNext]_vars

Ruined(self) == DLe(self.account_info.account_equity, Zero)

\* C30: the equity is looked at before each symbol: once account_equity is
\* <= 0 nothing more happens to any symbol, neither to a later symbol of the
\* bar that exhausted it nor in a later bar: no exit is taken, no position
\* closed, none opened.
C30_NothingWhenRuined ==
    [][(Called("step") /\ Ruined(broker)) =>
          /\ last_call'.exit = "None" /\ last_call'.open = "not_called"
          /\ broker'.trades = broker.trades
          /\ broker'.positions = broker.positions]_vars

\* the part the bar loop does keep: a bar that starts with account_equity <= 0
\* ends the run, a finished run changes nothing more, and only a symbol after
\* the first of a bar is processed without equity
C30_BarNeedsEquity ==
    [][/\ (Called("bar") /\ Ruined(broker)) => run'.status = "finished"
       /\ run.status = "finished" => UNCHANGED <<broker, clock>>
       /\ (Called("step") /\ Ruined(broker)) => last_call'.symbol # symbol_list[1]]_vars

\* the close of BTCUSDT took the equity below 0, and in the same bar the
\* position of ETHUSDT went through its exits and was closed
C30_ClosedWhenRuined ==
    /\ last_call.op = "step" /\ last_call.symbol = "ETHUSDT"
    /\ last_call.exit = "MANUAL"
    /\ Len(broker.trades) = 2
    /\ broker.trades[1].symbol = "BTCUSDT"
    /\ broker.trades[1].close_time = last_call.timestamp
    /\ broker.trades[2].symbol = "ETHUSDT"
    /\ broker.trades[2].close_time = last_call.timestamp
    /\ DLe(DAdd(initial_balance, broker.trades[1].pnl), Zero)

\* without equity the gate lets no later symbol open
C30_NoOpenWhenRuined ==
    [][(Called("step") /\ Ruined(broker)) => last_call'.open = "not_called"]_vars

\* ------------------------------------------------------------------------
\* The rows of data behind each decision of a bar
\* ------------------------------------------------------------------------
\* the window lengths of the indicators (settings of the run)
params == [bb_length |-> 2, ma_slow_length |-> 3, ma_slope_window |-> 1,
           average_volume_window |-> 2]

\* lines 96-102: (max(self.params.values()) * 24) + 1
reserved_klines == (params.ma_slow_length * 24) + 1

MaxLookBars == 30

\* the row a label picks in a frame of n rows: iloc[k], k < 0 from the end
iloc_last(n, k) == n - 1

iloc(n, k) == IF k < 0 THEN n + k ELSE k

\* the rows behind the value at row p of a rolling(window).mean() or .std()
rolling(p, window) == {q \in 0..p : q > p - window}

\* the rows behind row p of series.pct_change(periods)
pct_change(reads, p, periods) ==
    reads[p] \cup (IF p - periods >= 0 THEN reads[p - periods] ELSE {})

\* the rows behind row p of an ewm(adjust=False).mean(): every row up to p
ewm(p) == 0..p

\* the rows behind the label of one timeframe at row p (check_trend_filter):
\* ma_fast, ma_slow and the slope of ma_fast
TrendReads(p) ==
    rolling(p, params.bb_length) \cup rolling(p, params.ma_slow_length)
        \cup pct_change([q \in 0..p |-> rolling(q, params.bb_length)], p,
                        params.ma_slope_window)

\* the rows behind the signals at row p: the close and the bands of the row,
\* the RSI (an ewm) and its average, the change rate of the bandwidth
SignalReads(p) == {p} \cup rolling(p, params.bb_length) \cup ewm(p)

\* df[df['timestamp'] < current_time] of a frame whose row j opens at
\* j * span bars: the number of rows kept
Until(span, current_time) ==
    Cardinality({j \in 0..(current_time \div (span * BarMs)) :
                    j * span * BarMs < current_time})

\* the rows read for the bar at row i of the 1h frame when the symbol is held
\* (lines 133-175): high and low of row i - 1 of the whole frame, the exit
\* signal at the last row of df_1h.iloc[:i]
ExitReads(i) ==
    [open |-> {i},
     h1 |-> {iloc(reserved_klines + MaxLookBars + 1, i - 1)} \cup SignalReads(iloc(i, -1)),
     h4 |-> {}, d1 |-> {}]

\* the rows read for an entry (lines 189-217): the three trend labels, the
\* volume and bandwidth filters, the entry signals and the ATR percentage, all
\* at iloc[-2] of df_1h.iloc[:i+1] or of the 4h and 1d frames until now
EntryReads(i, current_time) ==
    [open |-> {i},
     h1 |-> TrendReads(iloc(i + 1, -2))
                \cup {iloc(i + 1, -2)} \cup rolling(iloc(i + 1, -2), params.average_volume_window)
                \cup rolling(iloc(i + 1, -2), params.bb_length)
                \cup SignalReads(iloc(i + 1, -2))
                \cup ewm(iloc(i + 1, -2)),
     h4 |-> TrendReads(iloc(Until(4, current_time), -2)),
     d1 |-> TrendReads(iloc(Until(24, current_time), -2))]

\* run.i is the row of the bar, run.k the hour of the day at which row 0 opens
LookInit ==
    /\ broker = None
    /\ \E first_hour \in 0..23 :
           /\ run = [i |-> reserved_klines, k |-> first_hour, status |-> "running"]
           /\ clock = (first_hour + reserved_klines) * BarMs
    /\ last_call = [op |-> "init"]
    /\ activated_at = 0

\* one bar of the symbol loop, for a held symbol or a free one
LookBar ==
    /\ run.i < reserved_klines + MaxLookBars
    /\ \E held \in BOOLEAN :
           last_call' = [op |-> "reads", i |-> run.i, current_time |-> clock,
                         held |-> held,
                         reads |-> IF held THEN ExitReads(run.i)
                                   ELSE EntryReads(run.i, clock)]
    /\ run' = [run EXCEPT !.i = @ + 1]
    /\ clock' = clock + BarMs
    /\ UNCHANGED <<broker, activated_at>>

LookSpec == LookInit /\ [][LookBar]_vars

\* C31: what decides at the bar of row i is computed from rows that had closed
\* when the bar opened: rows up to i - 1 of the 1h frame, rows of the 4h and
\* 1d frames whose span ended at or before the open of the bar; of row i
\* itself only the open is read.
C31_NoLookAhead ==
    last_call.op = "reads" =>
        /\ \A q \in last_call.reads.h1 : q >= 0 /\ q <= last_call.i - 1
        /\ \A j \in last_call.reads.h4 :
               j >= 0 /\ (j + 1) * 4 * BarMs <= last_call.current_time
        /\ \A j \in last_call.reads.d1 :
               j >= 0 /\ (j + 1) * 24 * BarMs <= last_call.current_time
        /\ last_call.reads.open = {last_call.i}

\* an entry decided at a bar that opens on a 4h boundary and one hour after
\* midnight: the 4h row that has just closed is left out, the rows read end
\* one before it
C31_Witness ==
    /\ last_call.op = "reads" /\ ~last_call.held
    /\ last_call.current_time % (4 * BarMs) = 0
    /\ last_call.i - 1 \in last_call.reads.h1
    /\ (last_call.current_time \div (4 * BarMs)) - 2 \in last_call.reads.h4
    /\ (last_call.current_time \div (4 * BarMs)) - 1 \notin last_call.reads.h4
    /\ last_call.reads.d1 # {}

\* C32: every bar whose symbols were walked adds exactly one sample to the
\* equity curve, after the last symbol, with the time of the bar and the
\* equity of that moment; steps of symbols add none, whether they closed,
\* were refused, or traded nothing; the times of the samples increase strictly.
C32_SampleStep ==
    /\ Called("end_bar") =>
           broker'.equity_curve =
               Append(broker.equity_curve,
                      [timestamp |-> clock,
                       equity |-> float_of(broker.account_info.account_equity)])
    /\ ~Called("end_bar") => broker'.equity_curve = broker.equity_curve

C32_OneSamplePerBar ==
    /\ [][C32_SampleStep]_vars
    /\ [](/\ Len(broker.equity_curve) = run.i
          /\ \A n \in 1..Len(broker.equity_curve) :
                 broker.equity_curve[n].timestamp = StartTime + (n - 1) * BarMs)

\* three bars sampled, one of them a bar in which a step closed a trade, and
\* the equity of the last sample is not that of the first
C32_Witness ==
    /\ Len(broker.equity_curve) = MaxBars
    /\ broker.trades # <<>>
    /\ \E n \in 1..Len(broker.trades), m \in 1..MaxBars :
           broker.trades[n].close_time = broker.equity_curve[m].timestamp
    /\ broker.equity_curve[1].equity # broker.equity_curve[MaxBars].equity

\* ------------------------------------------------------------------------
\* RiskControl.check_trend_filter: the label of each timeframe
\* ------------------------------------------------------------------------
\* lines 54-68: frames holds, per timeframe, ma_fast, ma_slow and the slope of
\* ma_fast at iloc[-2]
check_trend_filter(frames, slope_threshold) ==
    [n \in 1..Len(frames) |->
        LET ma_fast == frames[n].ma_fast
            ma_slow == frames[n].ma_slow
            ma_fast_slope == frames[n].ma_fast_slope
            is_sideway == ma_fast_slope < slope_threshold
                          /\ ma_fast_slope > 0 - slope_threshold
        IN  IF ma_fast > ma_slow /\ ma_fast_slope > 0 /\ ~is_sideway THEN "long"
            ELSE IF ma_fast < ma_slow /\ ma_fast_slope < 0 /\ ~is_sideway THEN "short"
            ELSE "sideway"]

\* the inputs of one call, in units of the threshold's last digit: averages
\* apart by -1, 0 or 1, slopes from -2 to 2, a threshold of 0, 1 or 2
TrendInit ==
    /\ broker = None /\ clock = StartTime /\ activated_at = 0
    /\ run = [i |-> 0, k |-> 0, status |-> "idle"]
    /\ \E frames \in [1..3 -> [ma_fast : {1, 2}, ma_slow : {1, 2}, ma_fast_slope : -2..2]],
          slope_threshold \in 0..2 :
           last_call = [op |-> "init", frames |-> frames,
                        slope_threshold |-> slope_threshold]

CheckTrendFilter ==
    /\ last_call.op = "init"
    /\ last_call' = [op |-> "check_trend_filter", frames |-> last_call.frames,
                     slope_threshold |-> last_call.slope_threshold,
                     status |-> check_trend_filter(last_call.frames,
                                                   last_call.slope_threshold)]
    /\ UNCHANGED <<broker, clock, run, activated_at>>

TrendSpec == TrendInit /\ [][CheckTrendFilter]_vars

Magnitude(x) == IF x < 0 THEN 0 - x ELSE x

\* C33: a timeframe is labelled long exactly when ma_fast > ma_slow, the slope
\* is positive and its magnitude is above the threshold, short exactly when
\* ma_fast < ma_slow, the slope is negative and its magnitude is above the
\* threshold, and sideway otherwise, a magnitude equal to the threshold
\* included.
C33_Labels ==
    last_call.op = "check_trend_filter" =>
        \A n \in 1..3 :
            LET f == last_call.frames[n]
                steep == Magnitude(f.ma_fast_slope) > last_call.slope_threshold
            IN  last_call.status[n] =
                    IF f.ma_fast > f.ma_slow /\ f.ma_fast_slope > 0 /\ steep THEN "long"
                    ELSE IF f.ma_fast < f.ma_slow /\ f.ma_fast_slope < 0 /\ steep THEN "short"
                    ELSE "sideway"

\* what the code does: a magnitude equal to the threshold already counts
C33_LabelsAtThreshold ==
    last_call.op = "check_trend_filter" =>
        \A n \in 1..3 :
            LET f == last_call.frames[n]
                steep == Magnitude(f.ma_fast_slope) >= last_call.slope_threshold
            IN  last_call.status[n] =
                    IF f.ma_fast > f.ma_slow /\ f.ma_fast_slope > 0 /\ steep THEN "long"
                    ELSE IF f.ma_fast < f.ma_slow /\ f.ma_fast_slope < 0 /\ steep THEN "short"
                    ELSE "sideway"

\* a slope equal to the threshold, labelled long
C33_LongAtThreshold ==
    /\ last_call.op = "check_trend_filter"
    /\ last_call.slope_threshold = 2
    /\ last_call.frames[1] = [ma_fast |-> 2, ma_slow |-> 1, ma_fast_slope |-> 2]
    /\ last_call.status[1] = "long"

\* ------------------------------------------------------------------------
\* The daily-loss check on the first call of a new day
\* ------------------------------------------------------------------------
\* the call is the first of a UTC day later than the day of the marker
FirstCallOfDay(self, current_time) ==
    self.last_reset_time # 0 /\ UtcDate(current_time) > UtcDate(self.last_reset_time)

\* C34: on the first can_open_position call of a new UTC day the daily-loss
\* check is evaluated against the daily_pnl left by the lazy daily reset, so
\* that a loss of the previous day does not block an open on the new day.
C34_LossCheckedAfterReset ==
    [][Called("can_open_position") /\ FirstCallOfDay(broker, clock)
         => last_call'.checks.daily_pnl = check_daily_pnl(broker')]_vars

\* what the code does: the check reads the daily_pnl the call found
C34_LossCheckedBeforeReset ==
    [][Called("can_open_position")
         => last_call'.checks.daily_pnl = check_daily_pnl(broker)]_vars

\* the loss of the previous day has made the call answer False, on a ledger
\* whose daily_pnl the same call has reset to 0
C34_YesterdaysLossBlocks ==
    /\ last_call.op = "can_open_position"
    /\ UtcDate(last_call.timestamp) > UtcDate(StartTime)
    /\ broker.last_reset_time = UtcDate(last_call.timestamp) * DayMs
    /\ broker.account_info.daily_pnl = Zero
    /\ DGt(broker.account_info.account_equity, Zero)
    /\ ~last_call.checks.daily_pnl
    /\ ~last_call.ret

\* ------------------------------------------------------------------------
\* The cooldown in the bar loop
\* ------------------------------------------------------------------------
\* the cooldown is active and has not run out at current_time
Cooling(self, current_time) ==
    /\ self.is_cooldown_activate
    /\ current_time - self.cooldown_start_time < cooldown_period * 1000

C35_CooldownStep ==
    (Called("step") /\ Cooling(broker, clock)) =>
        /\ last_call'.can_open # "yes"
        /\ last_call'.open = "not_called"
        /\ DOMAIN broker'.positions \subseteq DOMAIN broker.positions

\* C35: in a backtest run no position is opened at a bar time t at which a
\* cooldown is active and t - cooldown_start_time < cooldown_period; the
\* symbols processed later in the bar of the activating losing close are
\* refused as well.
C35_NoOpenInCooldown == [][C35_CooldownStep]_vars

\* the first symbol of the bar was closed at a loss that activated the
\* cooldown, and the second symbol, free, has been refused in the same bar
C35_Witness ==
    /\ last_call.op = "step"
    /\ last_call.symbol = "ETHUSDT"
    /\ last_call.can_open = "no"
    /\ "ETHUSDT" \notin DOMAIN broker.positions
    /\ broker.is_cooldown_activate
    /\ broker.cooldown_start_time = last_call.timestamp
    /\ LastTrade(broker).symbol = "BTCUSDT"
    /\ LastTrade(broker).close_time = last_call.timestamp
    /\ LastTrade(broker).pnl.neg

\* ------------------------------------------------------------------------
\* Positions of amount 0
\* ------------------------------------------------------------------------
\* C36: the engine stores no position whose amount or notional is zero or
\* negative: when the sizing fails or yields 0 no position is opened and no
\* trade is counted, so that no close divides by a notional of 0.
C36_NoEmptyPosition ==
    /\ [](broker # None =>
            \A symbol \in DOMAIN broker.positions :
                /\ DGt(broker.positions[symbol].open_amt, Zero)
                /\ DGt(broker.positions[symbol].open_size, Zero))
    /\ [][Called("step") /\ last_call'.amount = Zero
            => /\ last_call'.symbol \notin DOMAIN broker'.positions
               /\ broker'.account_info.total_trades = broker.account_info.total_trades
               /\ broker'.account_info.daily_trades = broker.account_info.daily_trades]_vars
    /\ [](last_call.op = "step" /\ last_call.exit # "None" => ~last_call.raised)

\* a failed sizing has stored a position of amount 0 and counted a trade
C36_EmptyPositionStored ==
    /\ last_call.op = "step"
    /\ last_call.amount = Zero
    /\ last_call.open = "ok"
    /\ broker.positions[last_call.symbol].open_amt = Zero
    /\ broker.positions[last_call.symbol].open_size = Zero
    /\ broker.account_info.total_trades = 1
    /\ broker.account_info.daily_trades = 1

\* the close of a position of amount 0 has raised and ended the run
C36_CloseDividesByZero ==
    /\ last_call.op = "step"
    /\ last_call.exit # "None"
    /\ last_call.raised
    /\ run.status = "raised"
    /\ broker.positions[last_call.symbol].open_size = Zero

\* a position whose amount is positive has a positive notional, and its
\* close does not raise
C36_SizedPositions ==
    /\ [](broker # None =>
            \A symbol \in DOMAIN broker.positions :
                DGt(broker.positions[symbol].open_amt, Zero)
                    => DGt(broker.positions[symbol].open_size, Zero))
    /\ [][Called("step") /\ last_call'.raised /\ last_call'.exit # "None"
            => broker.positions[last_call'.symbol].open_amt = Zero]_vars

\* ------------------------------------------------------------------------
\* The trade counters
\* ------------------------------------------------------------------------
\* C37: at every point of a run total_trades is the number of records in
\* the trade log plus the number of open positions, and daily_trades is at
\* most total_trades.
C37_TradeCount ==
    broker # None =>
        /\ broker.account_info.total_trades
               = Len(broker.trades) + Cardinality(DOMAIN broker.positions)
        /\ broker.account_info.daily_trades <= broker.account_info.total_trades

\* a closed trade in the log, a position open, and a day's count that the
\* daily reset has taken below the total
C37_Witness ==
    /\ broker # None
    /\ Len(broker.trades) >= 1
    /\ Cardinality(DOMAIN broker.positions) >= 1
    /\ broker.account_info.total_trades >= 2
    /\ broker.account_info.daily_trades < broker.account_info.total_trades
    /\ broker.account_info.daily_trades >= 1

\* ------------------------------------------------------------------------
\* A closed symbol in the rest of its bar
\* ------------------------------------------------------------------------
\* C38: a symbol whose position is closed at bar i, for whatever reason, is
\* not re-opened at bar i; the earliest bar at which it holds a new position
\* is bar i + 1.
C38_NoReopenInBar ==
    /\ [][Called("step") /\ last_call'.exit # "None" /\ ~last_call'.raised
            => /\ last_call'.open = "not_called"
               /\ last_call'.symbol \notin DOMAIN broker'.positions]_vars
    /\ [](broker # None =>
            \A symbol \in DOMAIN broker.positions :
            \A n \in 1..Len(broker.trades) :
                broker.trades[n].symbol = symbol
                    => broker.positions[symbol].open_time
                           >= broker.trades[n].close_time + BarMs)

\* BTCUSDT was closed at one bar and holds a new position opened at the next
C38_Witness ==
    /\ broker # None
    /\ "BTCUSDT" \in DOMAIN broker.positions
    /\ \E n \in 1..Len(broker.trades) :
            /\ broker.trades[n].symbol = "BTCUSDT"
            /\ broker.positions["BTCUSDT"].open_time = broker.trades[n].close_time + BarMs

\* ------------------------------------------------------------------------
\* The live PositionManager: one close seen by the stream and by the trader
\* ------------------------------------------------------------------------
\* _live_position_template, the fields the close of a position reads and writes
live_position_template ==
    [strategy |-> "None", stop_loss |-> None, close_price |-> 0, pnl |-> 0,
     is_open_message_sent |-> FALSE, is_close_message_sent |-> FALSE]

\* what a thread does when a function it called returns to it: the trader
\* still has the close_position_complete of line 190 to call
Return(th) ==
    IF th.tail THEN [th EXCEPT !.pc = "check", !.tail = FALSE]
    ELSE [th EXCEPT !.pc = "done"]

\* update_position_info, lines 237-240: the record is created if absent
EnsureRecord(self, symbol, th) ==
    [self |-> IF symbol \in DOMAIN self.positions THEN self
              ELSE [self EXCEPT !.positions = PutPosition(@, symbol, live_position_template)],
     th |-> [th EXCEPT !.pc = IF th.data.kind = "Order" THEN "fill" ELSE "decide"]]

\* lines 243-274, a filled closing Order: price and realized profit are
\* written to the record; a record deleted in the meantime is a KeyError
RecordFill(self, symbol, th) ==
    IF symbol \notin DOMAIN self.positions
    THEN [self |-> self, th |-> [th EXCEPT !.pc = "raised"]]
    ELSE [self |-> [self EXCEPT !.positions[symbol].close_price = th.data.avg_price,
                                !.positions[symbol].pnl = @ + th.data.realized_profit],
          th |-> [th EXCEPT !.pc = "decide"]]

\* lines 306-312, status FILLED: a closing order completes the close, any
\* other order completes the open if the record has its strategy and stops
\* (open_position_complete returns at once, the open message being sent)
CompleteIfFilled(self, symbol, th) ==
    IF th.data.reduce_only
    THEN [self |-> self, th |-> [th EXCEPT !.pc = "check"]]
    ELSE IF symbol \notin DOMAIN self.positions
    THEN [self |-> self, th |-> [th EXCEPT !.pc = "raised"]]
    ELSE [self |-> self, th |-> Return(th)]

\* close_position_complete, lines 421-425: the test made outside the lock
CheckRecord(self, symbol, th) ==
    [self |-> self,
     th |-> IF symbol \notin DOMAIN self.positions THEN Return(th)
            ELSE [th EXCEPT !.pc = "lock"]]

\* lines 428-458 under the lock: the message flag is tested, daily_pnl and the
\* loss streak are updated with the pnl of the record and the close message is
\* sent
AccountClose(self, symbol, th, current_time) ==
    IF symbol \notin DOMAIN self.positions
    THEN [self |-> [self EXCEPT !.lock = "free"], th |-> [th EXCEPT !.pc = "raised"]]
    ELSE IF self.positions[symbol].is_close_message_sent
    THEN [self |-> [self EXCEPT !.lock = "free"], th |-> Return(th)]
    ELSE LET pnl == self.positions[symbol].pnl
             losses == IF pnl < 0 THEN self.consecutive_losses + 1 ELSE 0
             cooling == pnl < 0 /\ losses >= self.max_consecutive_loss
         IN  [self |-> [self EXCEPT
                            !.account_info.daily_pnl = @ + pnl,
                            !.consecutive_losses = losses,
                            !.cooldown_start_time = IF cooling THEN current_time ELSE @,
                            !.is_cooldown_activate = IF cooling THEN TRUE ELSE @,
                            !.close_messages = Append(@, [symbol |-> symbol, pnl |-> pnl])],
              th |-> [th EXCEPT !.pc = "record"]]

\* lines 461-474 under the lock: the flag is set, the record is logged and
\* deleted
LogAndDelete(self, symbol, th) ==
    IF symbol \notin DOMAIN self.positions
    THEN [self |-> [self EXCEPT !.lock = "free"], th |-> [th EXCEPT !.pc = "raised"]]
    ELSE [self |-> [self EXCEPT
                       !.trade_log = Append(@, [symbol |-> symbol,
                                                strategy |-> self.positions[symbol].strategy,
                                                pnl |-> self.positions[symbol].pnl]),
                       !.positions = DelPosition(@, symbol),
                       !.lock = "free"],
          th |-> Return(th)]

\* the next step of a thread inside update_position_info and
\* close_position_complete
ThreadStep(self, symbol, th, current_time) ==
    IF th.pc = "start" THEN EnsureRecord(self, symbol, th)
    ELSE IF th.pc = "fill" THEN RecordFill(self, symbol, th)
    ELSE IF th.pc = "decide" THEN CompleteIfFilled(self, symbol, th)
    ELSE IF th.pc = "check" THEN CheckRecord(self, symbol, th)
    ELSE IF th.pc = "lock"      \* line 427: with self.lock
    THEN [self |-> [self EXCEPT !.lock = th.name], th |-> [th EXCEPT !.pc = "account"]]
    ELSE IF th.pc = "account" THEN AccountClose(self, symbol, th, current_time)
    ELSE LogAndDelete(self, symbol, th)

CanStep(self, th) ==
    /\ th.pc \in {"start", "fill", "decide", "check", "lock", "account", "record"}
    /\ th.pc = "lock" => self.lock = "free"

\* BTCUSDT is open and announced, with a loss streak of 0 or 1; its closing
\* market order has been filled with a realized profit of -5 or 5.  The
\* stream delivers the fill to update_position_info; after a close by signal
\* the trader polls the order status and passes the result on, with or
\* without the reduce-only flag, then calls close_position_complete.  A
\* close by a stop order of the exchange is seen by the stream alone.
LiveInit ==
    /\ \E consecutive_losses \in {0, 1}, realized_profit \in {-5, 5},
          reduce_only \in BOOLEAN, by_signal \in BOOLEAN :
        /\ broker = [positions |-> [symbol \in {"BTCUSDT"} |->
                                       [live_position_template EXCEPT
                                           !.strategy = "trend_long", !.stop_loss = 49000,
                                           !.is_open_message_sent = TRUE]],
                     account_info |-> [daily_pnl |-> 0],
                     consecutive_losses |-> consecutive_losses,
                     max_consecutive_loss |-> 2,
                     cooldown_start_time |-> 0, is_cooldown_activate |-> FALSE,
                     lock |-> "free", close_messages |-> <<>>, trade_log |-> <<>>]
        /\ run = [listener |-> [name |-> "listener", pc |-> "start", tail |-> FALSE,
                                data |-> [kind |-> "Order", reduce_only |-> TRUE,
                                          avg_price |-> 49950,
                                          realized_profit |-> realized_profit]],
                  trader |-> [name |-> "trader",
                              pc |-> IF by_signal THEN "start" ELSE "done",
                              tail |-> by_signal,
                              data |-> [kind |-> "OrderResult", reduce_only |-> reduce_only,
                                        avg_price |-> 0, realized_profit |-> 0]],
                  streak |-> consecutive_losses, by_signal |-> by_signal]
    /\ clock = StartTime
    /\ last_call = [op |-> "init"]
    /\ activated_at = 0

\* the WebSocket thread: _handle_user_message calls the registered callback
ListenerStep ==
    /\ CanStep(broker, run.listener)
    /\ \E r \in {ThreadStep(broker, "BTCUSDT", run.listener, clock)} :
            /\ broker' = r.self
            /\ run' = [run EXCEPT !.listener = r.th]
            /\ last_call' = [op |-> "listener", pc |-> run.listener.pc]
    /\ UNCHANGED <<clock, activated_at>>

\* the trader thread, trader.py 170-190
TraderStep ==
    /\ CanStep(broker, run.trader)
    /\ \E r \in {ThreadStep(broker, "BTCUSDT", run.trader, clock)} :
            /\ broker' = r.self
            /\ run' = [run EXCEPT !.trader = r.th]
            /\ last_call' = [op |-> "trader", pc |-> run.trader.pc]
    /\ UNCHANGED <<clock, activated_at>>

LiveSpec == LiveInit /\ [][ListenerStep \/ TraderStep]_vars

\* both threads are through with the close
Settled ==
    /\ run.listener.pc \in {"done", "raised"}
    /\ run.trader.pc \in {"done", "raised"}

C39_FinalizedTwice ==
    /\ Settled
    /\ Len(broker.close_messages) = 2
    /\ Len(broker.trade_log) = 2
    /\ broker.trade_log[2].strategy = "None"
    /\ run.listener.data.realized_profit < 0
    /\ broker.consecutive_losses = 0

\* the close was finalized before the fill was written: the loss never
\* reaches daily_pnl and the fill of the stream ends in an exception
C39_FinalizedWithoutPnl ==
    /\ Settled
    /\ run.listener.pc = "raised"
    /\ Len(broker.close_messages) = 1
    /\ broker.close_messages[1].pnl = 0
    /\ run.listener.data.realized_profit < 0
    /\ broker.account_info.daily_pnl = 0

\* a close seen by the stream alone is finalized once, with its pnl
C39_StreamAlone ==
    (Settled /\ ~run.by_signal) =>
        LET pnl == run.listener.data.realized_profit
        IN  /\ broker.close_messages = <<[symbol |-> "BTCUSDT", pnl |-> pnl]>>
            /\ broker.trade_log = <<[symbol |-> "BTCUSDT", strategy |-> "trend_long",
                                     pnl |-> pnl]>>
            /\ broker.account_info.daily_pnl = pnl
            /\ broker.consecutive_losses = IF pnl < 0 THEN run.streak + 1 ELSE 0

\* a close by signal that both threads have handled and that was finalized
\* once, with its pnl: the fill arrived between the two calls of the trader
C39_OnceBySignal ==
    /\ Settled /\ run.by_signal
    /\ run.listener.pc = "done" /\ run.trader.pc = "done"
    /\ broker.close_messages = <<[symbol |-> "BTCUSDT",
                                  pnl |-> run.listener.data.realized_profit]>>
    /\ Len(broker.trade_log) = 1
    /\ broker.trade_log[1].pnl = run.listener.data.realized_profit

\* ------------------------------------------------------------------------
\* BinanceAPI: reconnection of the WebSocket listener
\* ------------------------------------------------------------------------
websocket_reconnect_attempts == 3

\* the reconnection attempts one behaviour may start
MaxAttempts == 8

RECURSIVE Pow2(_)
Pow2(k) == IF k = 0 THEN 1 ELSE 2 * Pow2(k - 1)

\* the listener is connected; pending counts the on_error and on_close
\* callbacks the WebSocket clients still have to deliver, attempts lists the
\* reconnection attempts started since the last established connection, each
\* with the counter value and the back-off it slept before
ListenerInit ==
    /\ broker = [reconnect_attempts |-> 0, connected |-> TRUE, pending |-> 0,
                 attempts |-> <<>>, started |-> 0]
    /\ clock = StartTime
    /\ run = [i |-> 0, k |-> 0, status |-> "listening"]
    /\ last_call = [op |-> "init"]
    /\ activated_at = 0

\* lines 180-188: the connection is lost and the client calls on_error,
\* on_close, or one after the other
ConnectionLost ==
    /\ broker.connected
    /\ \E callbacks \in {1, 2} :
            broker' = [broker EXCEPT !.connected = FALSE, !.pending = @ + callbacks,
                                     !.attempts = <<>>]
    /\ last_call' = [op |-> "connection_lost"]
    /\ UNCHANGED <<clock, run, activated_at>>

\* _reconnect_websocket, lines 240-323, called by on_error or on_close.  The
\* new listenKey is obtained or not; the new client connects within the 5
\* seconds of lines 311-316 (the counter is reset) or fails, and a client
\* that fails calls on_error, on_close, or both.
ReconnectWebsocket ==
    /\ broker.pending > 0
    /\ broker.started < MaxAttempts
    /\ \E outcome \in {"connected", "failed", "no_listen_key"}, callbacks \in {1, 2} :
        IF broker.reconnect_attempts >= websocket_reconnect_attempts
        THEN /\ broker' = [broker EXCEPT !.pending = @ - 1, !.reconnect_attempts = 0]
             /\ last_call' = [op |-> "reconnect", attempt |-> 0, back_off |-> 0,
                              outcome |-> "limit"]
        ELSE \E k \in {broker.reconnect_attempts + 1} :
             /\ broker' = [broker EXCEPT
                    !.started = @ + 1,
                    !.attempts = IF outcome = "connected" THEN <<>>
                                 ELSE Append(@, [attempt |-> k, back_off |-> Pow2(k)]),
                    !.reconnect_attempts = IF outcome = "connected" THEN 0 ELSE k,
                    !.connected = (outcome = "connected"),
                    !.pending = (@ - 1) + (IF outcome = "failed" THEN callbacks ELSE 0)]
             /\ last_call' = [op |-> "reconnect", attempt |-> k, back_off |-> Pow2(k),
                              outcome |-> outcome]
    /\ UNCHANGED <<clock, run, activated_at>>

ListenerSpec == ListenerInit /\ [][ConnectionLost \/ ReconnectWebsocket]_vars

\* C40: after the connection is lost the listener makes at most
\* websocket_reconnect_attempts consecutive reconnection attempts, the k-th
\* preceded by a back-off of 2^k seconds; once the limit is reached without
\* a connection no further attempt is started, and the attempt counter
\* returns to 0 only after a connection has been established.
C40_BoundedReconnect ==
    /\ [](Len(broker.attempts) <= websocket_reconnect_attempts)
    /\ [](\A k \in 1..Len(broker.attempts) : broker.attempts[k].back_off = Pow2(k))
    /\ [][broker.reconnect_attempts > 0 /\ broker'.reconnect_attempts = 0
            => broker'.connected]_vars

\* the counter was set back to 0 at the limit, with no connection
C40_CounterResetAtLimit ==
    /\ last_call.op = "reconnect"
    /\ last_call.outcome = "limit"
    /\ broker.reconnect_attempts = 0
    /\ ~broker.connected
    /\ Len(broker.attempts) = websocket_reconnect_attempts

\* a fourth consecutive attempt without a connection, after a back-off of 2
\* seconds again
C40_AttemptPastLimit ==
    /\ ~broker.connected
    /\ Len(broker.attempts) = websocket_reconnect_attempts + 1
    /\ broker.attempts[websocket_reconnect_attempts + 1] = [attempt |-> 1, back_off |-> 2]

\* what holds: every attempt sleeps 2^n seconds for the value n the counter
\* has when it starts, n is at most the limit, and a call that finds the
\* counter at the limit starts no attempt
C40_BackOffByCounter ==
    /\ [](broker.reconnect_attempts \in 0..websocket_reconnect_attempts)
    /\ [](\A k \in 1..Len(broker.attempts) :
            /\ broker.attempts[k].attempt \in 1..websocket_reconnect_attempts
            /\ broker.attempts[k].back_off = Pow2(broker.attempts[k].attempt))
    /\ [][Called("reconnect") /\ broker.reconnect_attempts >= websocket_reconnect_attempts
            => broker'.started = broker.started /\ ~broker'.connected]_vars

====
